---- MODULE Spec2Model ----
(***************************************************************************)
(* State-machine model of the vtermtest session controller                 *)
(* (src/emulator.go), its output reader goroutine and the screen snapshot  *)
(* extractor (screen.go, kept in src/unnamed/part_004).                    *)
(*                                                                         *)
(* Threads: one caller goroutine (the test), which issues the API calls    *)
(* one after the other as every test of the repository does, and one       *)
(* readLoop goroutine per successful Start.  A call that blocks while      *)
(* other goroutines must run (Close's wait for the reader, the row loop of *)
(* GetScreenText under the lock) is split into steps; a call whose         *)
(* statements touch nothing another goroutine reads or writes in between   *)
(* is one step.                                                            *)
(*                                                                         *)
(* A call ends in the position "done", where its result can be looked at;  *)
(* the caller's next step, Return, takes it back to "idle".  Steps of the  *)
(* other goroutines commute with Return, so the model lets them run from   *)
(* "idle" on and not in between.                                           *)
(*                                                                         *)
(* The pty, the child process and libvterm are external; they are modelled *)
(* by what the calls made on them return: os.File (Close/Read/Write on a   *)
(* closed file fail), os/exec (Kill after Wait reports "process already    *)
(* finished", a second Wait fails), libvterm (a grid of cells, freed by    *)
(* its Close).                                                             *)
(***************************************************************************)
EXTENDS Integers, Sequences, FiniteSets, TLC

\* ------------------------------------------------------------------ bounds
MaxStarts == 2      \* successful Start calls (children, ptys, readers)
MaxDim    == 2      \* largest row / column count used by New and Resize
MaxChunks == 2      \* chunks of output the children produce in total
MaxGets == 2        \* calls of GetRawBytes
MaxEvents == 2      \* longest KeyPress event list

\* ------------------------------------------------------------- vocabulary
Free    == 0        \* mu: unlocked
Caller  == -1       \* mu: held by the caller goroutine
NilCmd  == -1       \* e.cmd == nil
NoProc  == 0        \* e.cmd != nil, e.cmd.Process == nil

Space   == 0        \* ' ' (also what an empty cell reads as)
Narrow  == 1        \* a glyph of display width 1
Wide    == 2        \* a glyph of display width 2
ZeroW   == 3        \* a glyph runewidth reports as width 0
NL      == 10       \* '\n'

Ids     == 1..MaxStarts
Dims    == 1..MaxDim
Idx     == 0..(MaxDim - 1)

VARIABLES
  \* Emulator fields
  rows, cols, commandPath, cmd, ptmx, vt, screen, mu, readerDone,
  \* external world: os.File of each pty, children, pty output, geometry
  fileOpen, child, pout, emitted, ptyRows, ptyCols,
  \* the engine e.vt refers to
  vtRows, vtCols, grid, vtFreed, dirty,
  \* readLoop goroutines: position, file of the pending Read, chunk in buf,
  \* and rlog: the err of the last Read with the chunks read and the chunks
  \* written to the engine so far
  rpc, rfile, rbuf, rlog,
  \* caller goroutine: position, locals of the running call, last return
  cpc, loc, ret, lastOp, lastErr,
  \* history
  nStarts, phase, prevResize, doneCloses,
  \* raw bytes: the fields e.collectRawBytes and e.rawBytes; the readers
  \* whose reads of the flag are not ordered after its last write; and
  \* rawLog: the chunks written to the engine so far, by whichever reader,
  \* and what each call of GetRawBytes has returned
  collectRawBytes, rawBytes, unordered, rawLog,
  \* polling calls (WaitStable, WaitFor, the Assert* family): the retry
  \* configuration e.assertCfg, the time since the call began, the position
  \* and the locals of the call
  assertCfg, now, ppc, pl,
  \* keys package and KeyPressString: the position and the locals of the call
  kpc, kl

emuVars   == <<rows, cols, commandPath, cmd, ptmx, vt, screen, mu, readerDone>>
extVars   == <<fileOpen, child, pout, emitted, ptyRows, ptyCols>>
vtVars    == <<vtRows, vtCols, grid, vtFreed, dirty>>
rdVars    == <<rpc, rfile, rbuf, rlog>>
callVars  == <<cpc, loc, ret, lastOp, lastErr>>
histVars  == <<nStarts, phase, prevResize, doneCloses>>
rawVars   == <<collectRawBytes, rawBytes, unordered, rawLog>>
pollVars  == <<assertCfg, now, ppc, pl>>
dslVars   == <<kpc, kl>>
sessionVars == <<emuVars, extVars, vtVars, rdVars, callVars, histVars,
                 rawVars>>
vars      == <<sessionVars, pollVars, dslVars>>

\* ----------------------------------------------------------------- engine
BlankGrid == [r \in Idx |-> [c \in Idx |-> Space]]

\* screen.GetCell(pos): outside the engine's geometry libvterm reports an
\* error, which getLine reads as a blank.
GetCell(s, row, col) ==
  IF row < s.r /\ col < s.c THEN s.g[row][col] ELSE Space

\* runewidth.RuneWidth
RuneWidth(g) ==
  CASE g = Wide  -> 2
    [] g = ZeroW -> 0
    [] OTHER     -> 1

\* The engine as the extractor sees it: grid and geometry.
Screen == [g |-> grid, r |-> vtRows, c |-> vtCols]

\* What the engine makes of the n-th chunk of output.  Odd chunks repaint
\* the screen: a wide glyph and then narrow ones on row 0, a zero-width
\* glyph followed by blanks on row 1, a narrow glyph followed by blanks on
\* the rows below; even chunks put a narrow glyph in the first column of
\* every row and blanks after it.
ChunkCell(n, row, col) ==
  IF n % 2 = 1
    THEN CASE row = 0 -> (IF col = 0 THEN Wide ELSE Narrow)
           [] row = 1 -> (IF col = 0 THEN ZeroW ELSE Space)
           [] OTHER   -> (IF col = 0 THEN Narrow ELSE Space)
    ELSE IF col = 0 THEN Narrow ELSE Space

\* vt.Write(buf[:n]): the engine interprets the chunk into its grid.
Feed(g, n, nr, nc) ==
  [r \in Idx |-> [c \in Idx |->
     IF r < nr /\ c < nc THEN ChunkCell(n, r, c) ELSE g[r][c]]]

\* vt.SetSize(rows, cols): cells outside the new geometry are dropped.
Crop(g, nr, nc) ==
  [r \in Idx |-> [c \in Idx |-> IF r < nr /\ c < nc THEN g[r][c] ELSE Space]]

\* ------------------------------------------------------ snapshot extractor
\* getLine: walk the display columns of one row; append the character once
\* and advance by its width, a width of 0 counting as 1.
RECURSIVE getLineFrom(_, _, _, _)
getLineFrom(s, row, col, ncols) ==
  IF col >= ncols THEN <<>>
  ELSE LET ch == GetCell(s, row, col)
           w  == IF RuneWidth(ch) = 0 THEN 1 ELSE RuneWidth(ch)
       IN  IF ch = Space
             THEN <<Space>> \o getLineFrom(s, row, col + 1, ncols)
             ELSE <<ch>> \o getLineFrom(s, row, col + w, ncols)

getLine(s, row, ncols) == getLineFrom(s, row, 0, ncols)

\* strings.TrimRight(line, " ")
RECURSIVE TrimRight(_)
TrimRight(line) ==
  IF line # <<>> /\ line[Len(line)] = Space
    THEN TrimRight(SubSeq(line, 1, Len(line) - 1))
    ELSE line

\* strings.Join(lines, "\n")
RECURSIVE Join(_)
Join(ls) ==
  IF ls = <<>> THEN <<>>
  ELSE IF Len(ls) = 1 THEN ls[1]
  ELSE ls[1] \o <<NL>> \o Join(Tail(ls))

\* GetScreenText on a quiescent screen s with the recorded geometry (nr, nc).
ScreenText(s, nr, nc) ==
  Join([i \in 1..nr |-> TrimRight(getLine(s, i - 1, nc))])

\* strings.Split(text, "\n"), as the tests take a snapshot apart.
RECURSIVE Split(_)
Split(text) ==
  IF \A i \in 1..Len(text) : text[i] # NL THEN <<text>>
  ELSE LET i == CHOOSE j \in 1..Len(text) :
                  text[j] = NL /\ \A k \in 1..(j - 1) : text[k] # NL
       IN  <<SubSeq(text, 1, i - 1)>> \o Split(SubSeq(text, i + 1, Len(text)))

\* ------------------------------------------------------------------- Init
\* Locals of the call in progress: the phase the session was in when the
\* call was made, Close's errs and the cleanup phases it has attempted,
\* KeyPress's argument list, what each pty
\* write returned, the events the pty accepted and the number of writes
\* attempted, the arguments of Resize and GetLine, GetScreenText's lines,
\* getLine's column cursor and the row it has built so far.
NoLoc == [pre |-> "-", errs |-> {}, tried |-> {},
          keys |-> <<>>, outs |-> <<>>,
          written |-> <<>>, att |-> 0, ar |-> 0, ac |-> 0, lines |-> <<>>,
          col |-> 0, line |-> <<>>]

\* The zero value of assertConfig, assert.go lines 112-116; the factor is
\* kept as a fraction <<numerator, denominator>>.
ZeroCfg == [maxAttempts |-> 0, initialDelay |-> 0, backoffFactor |-> <<0, 1>>]

\* Locals of the polling call in progress.  WaitStable and WaitFor: the
\* arguments, deadline, lastScreen, stableStart, the result (res; for
\* WaitFor's error also the snapshot the message carries, shown).
\* assertWithRetry: maxAttempts, delay, backoffFactor, attempt, lastErr.
\* History of the call: the snapshots polled with their times (polls), what
\* each check returned (outcomes), the sleeps made (sleeps), the diagnostics
\* handed to t.Fatalf (fatal).  A single check of AssertScreenEqual: the
\* expectation (text), the snapshot read (lastScreen), the verdict (res).
NoPoll == [op |-> "-", quiet |-> 0, timeout |-> 0, text |-> <<>>,
           deadline |-> 0, lastScreen |-> <<>>, stableStart |-> 0,
           res |-> "-", shown |-> <<>>,
           maxAttempts |-> 0, delay |-> 0, backoffFactor |-> <<0, 1>>,
           attempt |-> 0, lastErr |-> "nil",
           polls |-> <<>>, outcomes |-> <<>>, sleeps |-> <<>>, fatal |-> <<>>]

\* Locals of the call of the keys package or of KeyPressString in progress:
\* the name handed to parseSpecialKey or the DSL string with its options,
\* what the parser returned (keys, perr and the position pos the error
\* message names), the index of the token loop, the error returned.
\* History of the call: the pieces the input was put together from (src),
\* the calls the token loop has made with their results (ran).
NoKeys == [op |-> "-", dsl |-> <<>>,
           opts |-> [TagStart |-> 0, TagEnd |-> 0],
           keys |-> <<>>, from |-> <<>>, perr |-> "nil", pos |-> 0,
           idx |-> 0, err |-> "nil", ran |-> <<>>]

\* New(rows, cols)
Init ==
  /\ rows \in Dims /\ cols \in Dims
  /\ commandPath = "" /\ cmd = NilCmd /\ ptmx = 0 /\ vt = 0 /\ screen = 0
  /\ mu = Free /\ readerDone = "open"
  /\ fileOpen = [k \in Ids |-> FALSE]
  /\ child = [k \in Ids |-> "none"]
  /\ pout = [k \in Ids |-> <<>>]
  /\ emitted = 0 /\ ptyRows = 0 /\ ptyCols = 0
  /\ vtRows = 0 /\ vtCols = 0 /\ grid = BlankGrid
  /\ vtFreed = FALSE /\ dirty = FALSE
  /\ rpc = [k \in Ids |-> "none"]
  /\ rfile = [k \in Ids |-> 0]
  /\ rbuf = [k \in Ids |-> 0]
  /\ rlog = [k \in Ids |-> [err |-> FALSE, got |-> <<>>, fed |-> <<>>]]
  /\ cpc = "idle" /\ loc = NoLoc /\ ret = <<>>
  /\ lastOp = "-" /\ lastErr = "nil"
  /\ nStarts = 0 /\ phase = "New"
  /\ prevResize = <<0, 0>> /\ doneCloses = 0
  /\ collectRawBytes = FALSE /\ rawBytes = <<>> /\ unordered = {}
  /\ rawLog = [fed |-> <<>>, got |-> <<>>]
  /\ assertCfg = ZeroCfg
  /\ now = 0 /\ ppc = "idle" /\ pl = NoPoll
  /\ kpc = "idle" /\ kl = NoKeys

\* The caller makes a call: it is between calls.
Call(op) ==
  /\ cpc = "idle"
  /\ lastOp' = op
  /\ prevResize' = <<0, 0>>
  /\ UNCHANGED <<pollVars, dslVars>>

\* A call that has nothing to do with the raw bytes.
Enter(op) == Call(op) /\ UNCHANGED rawVars

\* The locals of a call that starts now.
Locals == [NoLoc EXCEPT !.pre = phase]

\* The caller has looked at the result of a call and goes on.  prevResize
\* remembers the size asked for by a Resize that has just succeeded.
Return ==
  /\ cpc = "done"
  /\ cpc' = "idle"
  /\ prevResize' = IF lastOp = "Resize" /\ lastErr = "nil"
                     THEN <<loc.ar, loc.ac>> ELSE <<0, 0>>
  /\ loc' = NoLoc /\ ret' = <<>> /\ lastOp' = "-" /\ lastErr' = "nil"
  /\ UNCHANGED <<emuVars, extVars, vtVars, rdVars, nStarts, phase, doneCloses>>
  /\ UNCHANGED <<rawVars, pollVars, dslVars>>

\* The other goroutines and the children run while the caller is in a call
\* or between calls, and the process is alive.
Scheduled == cpc \notin {"done", "crashed"}

\* ----------------------------------------------------- Command and Start
\* Command, lines 66-70: no look at the state of the session.
Command(path) ==
  /\ Enter("Command")
  /\ commandPath' = path
  /\ cpc' = "done" /\ lastErr' = "nil" /\ loc' = Locals /\ ret' = <<>>
  /\ UNCHANGED <<rows, cols, cmd, ptmx, vt, screen, mu, readerDone>>
  /\ UNCHANGED <<extVars, vtVars, rdVars, nStarts, phase, doneCloses>>

\* Start, line 88: the only guard is on the command path.
StartGuard == commandPath # ""

\* Start, lines 100-113 on success: the k-th child and pty, a fresh engine of
\* the recorded geometry, and a new readLoop goroutine.
StartSpawn(k) ==
  /\ cmd' = k /\ ptmx' = k /\ vt' = k /\ screen' = k
  /\ fileOpen' = [fileOpen EXCEPT ![k] = TRUE]
  /\ child' = [child EXCEPT ![k] = "running"]
  /\ ptyRows' = rows /\ ptyCols' = cols
  /\ vtRows' = rows /\ vtCols' = cols /\ grid' = BlankGrid
  /\ vtFreed' = FALSE /\ dirty' = FALSE
  /\ rpc' = [rpc EXCEPT ![k] = "read"]
  /\ rfile' = [rfile EXCEPT ![k] = k]
  /\ nStarts' = k /\ phase' = "Running"
  /\ lastErr' = "nil"
  /\ UNCHANGED <<pout, emitted, rbuf, rlog>>

Start ==
  /\ Enter("Start")
  /\ \/ /\ ~StartGuard
        /\ lastErr' = "no command specified"
        /\ UNCHANGED <<cmd, ptmx, vt, screen, extVars, vtVars, rdVars,
                       nStarts, phase>>
     \/ /\ StartGuard          \* pty.StartWithSize fails: e.cmd stays set
        /\ cmd' = NoProc
        /\ lastErr' = "spawn failed"
        /\ UNCHANGED <<ptmx, vt, screen, extVars, vtVars, rdVars,
                       nStarts, phase>>
     \/ /\ StartGuard
        /\ nStarts < MaxStarts
        /\ StartSpawn(nStarts + 1)
  /\ cpc' = "done" /\ loc' = Locals /\ ret' = <<>>
  /\ UNCHANGED <<rows, cols, commandPath, mu, readerDone, doneCloses>>

\* ------------------------------------------------------- child processes
\* The child writes its next chunk of output to its side of the pty, which
\* takes it while the master side is open.
ChildWrite(k) ==
  /\ Scheduled
  /\ child[k] = "running" /\ fileOpen[k]
  /\ emitted < MaxChunks
  /\ pout' = [pout EXCEPT ![k] = Append(@, emitted + 1)]
  /\ emitted' = emitted + 1
  /\ UNCHANGED <<fileOpen, child, ptyRows, ptyCols>>
  /\ UNCHANGED <<emuVars, vtVars, rdVars, callVars, histVars>>
  /\ UNCHANGED <<rawVars, pollVars, dslVars>>

\* The child exits by itself.
ChildExit(k) ==
  /\ Scheduled
  /\ child[k] = "running"
  /\ child' = [child EXCEPT ![k] = "exited"]
  /\ UNCHANGED <<fileOpen, pout, emitted, ptyRows, ptyCols>>
  /\ UNCHANGED <<emuVars, vtVars, rdVars, callVars, histVars>>
  /\ UNCHANGED <<rawVars, pollVars, dslVars>>

\* ---------------------------------------------------------------- readLoop
\* defer close(e.readerDone), line 119, when readLoop returns.  Closing the
\* channel a second time panics, which ends the process and every goroutine
\* in it; doneCloses counts the executions of the close.
ReaderReturn(i) ==
  /\ readerDone' = "closed"
  /\ doneCloses' = doneCloses + 1
  /\ rfile' = [rfile EXCEPT ![i] = 0]
  /\ IF readerDone = "closed"
       THEN /\ cpc' = "crashed"
            /\ rpc' = [j \in Ids |-> IF rpc[j] = "none" THEN "none" ELSE "done"]
       ELSE /\ cpc' = cpc
            /\ rpc' = [rpc EXCEPT ![i] = "done"]

\* The err of a Read that returns a chunk: nil, or the end of the stream
\* when the chunk is the last one of a child that is gone.
ReadErrs(f) ==
  IF Len(pout[f]) = 1 /\ child[f] # "running" THEN {FALSE, TRUE} ELSE {FALSE}

\* e.ptmx.Read(buf), line 123.  The field e.ptmx is read without the lock on
\* every iteration while Start may assign it, so the call is made on the
\* file of the previous iteration or on the current one.  A read on a closed
\* file or at end of stream returns an error with n = 0 and ends the loop;
\* the last chunk of a child that is gone comes with a nil error or, as an
\* io.Reader may, together with the error.
ReaderRead(i) ==
  /\ Scheduled
  /\ rpc[i] = "read"
  /\ \E f \in {rfile[i], ptmx} :
       \/ /\ fileOpen[f] /\ pout[f] # <<>>
          /\ \E err \in ReadErrs(f) :
               rlog' = [rlog EXCEPT ![i].err = err,
                                    ![i].got = Append(@, Head(pout[f]))]
          /\ rfile' = [rfile EXCEPT ![i] = f]
          /\ rpc' = [rpc EXCEPT ![i] = "feed"]
          /\ rbuf' = [rbuf EXCEPT ![i] = Head(pout[f])]
          /\ pout' = [pout EXCEPT ![f] = Tail(@)]
          /\ UNCHANGED <<readerDone, doneCloses, cpc>>
       \/ /\ ~fileOpen[f] \/ (pout[f] = <<>> /\ child[f] # "running")
          /\ ReaderReturn(i)
          /\ rlog' = [rlog EXCEPT ![i].err = TRUE]
          /\ UNCHANGED <<rbuf, pout>>
  /\ UNCHANGED <<fileOpen, child, emitted, ptyRows, ptyCols>>
  /\ UNCHANGED <<rows, cols, commandPath, cmd, ptmx, vt, screen, mu>>
  /\ UNCHANGED <<vtVars, loc, ret, lastOp, lastErr, nStarts, phase, prevResize>>
  /\ UNCHANGED <<rawVars, pollVars, dslVars>>

\* e.mu.Lock(), line 125
ReaderAcquire(i) == mu = Free /\ mu' = i

\* e.vt.Write(buf[:n]), line 130.  A write into an engine Close has freed is
\* a use after free: it lands in the stale grid or nowhere.
FedGrids(n) ==
  IF vtFreed THEN {Feed(grid, n, vtRows, vtCols), grid}
             ELSE {Feed(grid, n, vtRows, vtCols)}

\* buf[:n]: the bytes of chunk n, n of them.
ChunkBytes(n) == [k \in 1..n |-> 96 + n]

\* if e.collectRawBytes, line 127.  EnableRawBytesCollection writes the
\* field without the lock: a read that is not ordered after the write is a
\* data race and finds the old value or the new one.
FlagRead(i) == IF i \in unordered THEN BOOLEAN ELSE {collectRawBytes}

\* Lines 125-131: take the lock, append the chunk to e.rawBytes if the flag
\* is read as set, and feed the chunk to the engine.  The engine's Write
\* takes the whole chunk and reports no error, so the flush of line 132
\* follows every write.
ReaderFeed(i) ==
  /\ Scheduled
  /\ rpc[i] = "feed"
  /\ ReaderAcquire(i)
  /\ \E on \in FlagRead(i) :
       rawBytes' = IF on THEN rawBytes \o ChunkBytes(rbuf[i]) ELSE rawBytes
  /\ rawLog' = [rawLog EXCEPT !.fed = Append(@, rbuf[i])]
  /\ UNCHANGED <<collectRawBytes, unordered>>
  /\ grid' \in FedGrids(rbuf[i])
  /\ dirty' = TRUE
  /\ rpc' = [rpc EXCEPT ![i] = "flush"]
  /\ rbuf' = [rbuf EXCEPT ![i] = 0]
  /\ rlog' = [rlog EXCEPT ![i].fed = Append(@, rbuf[i])]
  /\ UNCHANGED <<rows, cols, commandPath, cmd, ptmx, vt, screen, readerDone>>
  /\ UNCHANGED <<extVars, vtRows, vtCols, vtFreed, rfile, callVars, histVars>>
  /\ UNCHANGED <<pollVars, dslVars>>

\* A reader that goes back to the read whatever err was.
BreaksNever(i) == FALSE

\* Lines 137-142: if err != nil, break.
Breaks(i) == rlog[i].err

\* Lines 132-142: flush, mark the activity, unlock; then back to the read,
\* or out of the loop when the Read had returned an error with the chunk.
ReaderFlush(i) ==
  /\ Scheduled
  /\ rpc[i] = "flush"
  /\ mu = i
  /\ dirty' = FALSE
  /\ mu' = Free
  /\ IF Breaks(i)
       THEN ReaderReturn(i)
       ELSE /\ rpc' = [rpc EXCEPT ![i] = "read"]
            /\ UNCHANGED <<readerDone, doneCloses, rfile, cpc>>
  /\ UNCHANGED <<rows, cols, commandPath, cmd, ptmx, vt, screen>>
  /\ UNCHANGED <<extVars, vtRows, vtCols, grid, vtFreed, rbuf, rlog>>
  /\ UNCHANGED <<loc, ret, lastOp, lastErr, nStarts, phase, prevResize>>
  /\ UNCHANGED <<rawVars, pollVars, dslVars>>

\* ------------------------------------------------------------------ Close
\* e.ptmx.Close(), lines 152-156: closing an os.File again is an error.
PtyCloseErrs == IF ptmx # 0 /\ ~fileOpen[ptmx] THEN {"pty"} ELSE {}

\* Kill and e.cmd.Wait(), lines 159-173.  Kill on a child that is gone
\* reports "process already finished", which is ignored.  Wait on a killed
\* child reports "signal: killed", which is ignored; on a child that left by
\* itself it reports the exit status, an error if not 0; a second Wait is
\* an error.
WaitErrs ==
  IF cmd <= 0 THEN {{}}
  ELSE CASE child[cmd] = "running" -> {{}}
         [] child[cmd] = "exited"  -> {{}, {"wait"}}
         [] OTHER                  -> {{"wait"}}

\* The cleanup phases the guards of lines 152 and 159 let Close attempt.
FirstPhases ==
  (IF ptmx # 0 THEN {"pty close"} ELSE {})
    \cup (IF cmd > 0 THEN {"kill", "wait"} ELSE {})

\* Lines 149-173: close the pty (what the child had written and nobody read
\* goes with it), kill the child and wait for it.
CloseBegin ==
  /\ Enter("Close")
  /\ phase' = "Closed"
  /\ \E w \in WaitErrs :
       loc' = [Locals EXCEPT !.errs = PtyCloseErrs \cup w,
                             !.tried = FirstPhases]
  /\ fileOpen' = IF ptmx # 0 THEN [fileOpen EXCEPT ![ptmx] = FALSE] ELSE fileOpen
  /\ pout' = IF ptmx # 0 THEN [pout EXCEPT ![ptmx] = <<>>] ELSE pout
  /\ child' = IF cmd > 0 THEN [child EXCEPT ![cmd] = "reaped"] ELSE child
  /\ cpc' = "close_select"
  /\ ret' = <<>> /\ lastErr' = "running"
  /\ UNCHANGED <<emuVars, emitted, ptyRows, ptyCols, vtVars, rdVars>>
  /\ UNCHANGED <<nStarts, doneCloses>>

\* A select without the case of the reader's signal.
SelectOnlyTimer == TRUE

\* The select of lines 176-180: the reader's signal, or else the 2s timer.
SelectTimesOut == readerDone = "open"

\* Lines 189-192
CloseReturn(es) == IF es = {} THEN "nil" ELSE "close errors"

\* e.vt.Close(), lines 183-187, frees the engine; no lock is taken and the
\* fields vt and screen keep their values.  Freeing it a second time is a
\* double free: the call returns or the process is gone.
TeardownCrashes == IF vt # 0 /\ vtFreed THEN BOOLEAN ELSE {FALSE}

\* The cleanup phases of lines 176-187: the select, and the teardown under
\* the guard of line 183.
LastPhases ==
  {"reader wait"} \cup (IF vt # 0 THEN {"teardown"} ELSE {})

\* Lines 176-192: the select, the teardown of the engine, the report.
CloseFinish ==
  /\ cpc = "close_select"
  /\ LET es == loc.errs \cup (IF SelectTimesOut THEN {"timeout"} ELSE {}) IN
       /\ loc' = [loc EXCEPT !.errs = es, !.tried = @ \cup LastPhases]
       /\ lastErr' = CloseReturn(es)
  /\ vtFreed' = (vtFreed \/ vt # 0)
  /\ \E crash \in TeardownCrashes :
       IF crash
         THEN /\ cpc' = "crashed"
              /\ rpc' = [j \in Ids |-> IF rpc[j] = "none" THEN "none" ELSE "done"]
         ELSE /\ cpc' = "done"
              /\ rpc' = rpc
  /\ UNCHANGED <<emuVars, extVars, vtRows, vtCols, grid, dirty, rfile, rbuf>>
  /\ UNCHANGED rlog
  /\ UNCHANGED <<ret, lastOp, histVars>>
  /\ UNCHANGED <<rawVars, pollVars, dslVars>>

\* ----------------------------------------------------------------- Resize
\* A Resize that does not record the new dimensions.
ResizeForgets(r, c) == rows' = rows /\ cols' = cols

\* Lines 326-327: the recorded dimensions.
ResizeRecord(r, c) == rows' = r /\ cols' = c

\* pty.Setsize, lines 330-335: the ioctl fails on a closed file.
SetsizeFails == ~fileOpen[ptmx]

\* Resize, lines 317-346: the guard, outside the lock; then, under the lock,
\* record the new dimensions, resize the pty, resize the engine.  Nothing
\* another goroutine does under way changes what the call does, so it is
\* one step, taken when the lock is free.
Resize(r, c) ==
  /\ Enter("Resize")
  /\ IF ptmx = 0
       THEN /\ lastErr' = "emulator not started"
            /\ UNCHANGED <<rows, cols, ptyRows, ptyCols, vtRows, vtCols, grid>>
       ELSE /\ mu = Free
            /\ ResizeRecord(r, c)
            /\ IF SetsizeFails
                 THEN /\ lastErr' = "failed to resize PTY"
                      /\ UNCHANGED <<ptyRows, ptyCols, vtRows, vtCols, grid>>
                 ELSE /\ ptyRows' = r /\ ptyCols' = c
                      /\ IF vt # 0
                           THEN /\ vtRows' = r /\ vtCols' = c
                                /\ grid' = Crop(grid, r, c)
                           ELSE UNCHANGED <<vtRows, vtCols, grid>>
                      /\ lastErr' = "nil"
  /\ cpc' = "done" /\ ret' = <<>>
  /\ loc' = [Locals EXCEPT !.ar = r, !.ac = c]
  /\ UNCHANGED <<commandPath, cmd, ptmx, vt, screen, mu, readerDone>>
  /\ UNCHANGED <<fileOpen, child, pout, emitted, vtFreed, dirty, rdVars>>
  /\ UNCHANGED <<nStarts, phase, doneCloses>>

\* ---------------------------------------------------------- GetScreenText
\* A row as the extractor reads it off the engine.  Reading an engine that
\* Close has freed is a use after free: the row comes out as the stale
\* content or as nothing.
ReadRow(row) ==
  IF vtFreed
    THEN {TrimRight(getLine(Screen, row, cols)), <<>>}
    ELSE {TrimRight(getLine(Screen, row, cols))}

\* e.mu.Lock(), screen.go line 13
SnapAcquire == mu = Free /\ mu' = Caller

\* screen.go lines 13-19: lock; without an engine the result is empty.  The
\* call remembers in ar, ac the size a directly preceding successful Resize
\* asked for.
SnapCall ==
  /\ Enter("GetScreenText")
  /\ loc' = [Locals EXCEPT !.ar = prevResize[1], !.ac = prevResize[2]]
  /\ ret' = <<>>
  /\ IF screen = 0
       THEN mu = Free /\ UNCHANGED mu /\ lastErr' = "nil" /\ cpc' = "done"
       ELSE SnapAcquire /\ lastErr' = "running" /\ cpc' = "snap"
  /\ UNCHANGED <<rows, cols, commandPath, cmd, ptmx, vt, screen, readerDone>>
  /\ UNCHANGED <<extVars, vtVars, rdVars, nStarts, phase, doneCloses>>

\* A row helper that takes the session lock itself, as GetLine does.
RowLockAsGetLine == mu = Free

\* screen.go lines 22 and 29-65: getLine takes no lock, so the row loop can
\* always go on.
RowLock == TRUE

\* screen.go lines 21-26: one iteration of the row loop; after the last
\* row the lines are joined and the deferred Unlock runs.
SnapRow ==
  /\ cpc = "snap"
  /\ RowLock
  /\ \E line \in ReadRow(Len(loc.lines)) :
       LET ls == Append(loc.lines, line) IN
       /\ loc' = [loc EXCEPT !.lines = ls]
       /\ IF Len(ls) < rows
            THEN UNCHANGED <<mu, ret, lastErr, cpc>>
            ELSE /\ ret' = Join(ls) /\ lastErr' = "nil" /\ cpc' = "done"
                 /\ mu' = Free
  /\ UNCHANGED <<rows, cols, commandPath, cmd, ptmx, vt, screen, readerDone>>
  /\ UNCHANGED <<extVars, vtVars, rdVars, lastOp, histVars>>
  /\ UNCHANGED <<rawVars, pollVars, dslVars>>

\* A GetLine that reports a row outside the screen as an error.
GetLineErrorOutOfRange(row) ==
  IF row >= rows THEN "row out of range" ELSE "nil"

\* screen.go lines 74 and 78: both returns carry a nil error.
GetLineError(row) == "nil"

\* A GetLine that returns the row as getLine built it.
GetLineRowUntrimmed(row) == {getLine(Screen, row, cols)}

\* screen.go lines 77-78: getLine and strings.TrimRight(line, " "), as in
\* GetScreenText's loop.
GetLineRow(row) == ReadRow(row)

\* GetLine, screen.go lines 67-79: the whole call runs under the lock.
GetLine(row) ==
  /\ Enter("GetLine")
  /\ mu = Free
  /\ IF screen = 0 \/ row >= rows
       THEN ret' = <<>>
       ELSE ret' \in GetLineRow(row)
  /\ loc' = [Locals EXCEPT !.ar = row]
  /\ lastErr' = GetLineError(row) /\ cpc' = "done"
  /\ UNCHANGED <<emuVars, extVars, vtVars, rdVars>>
  /\ UNCHANGED <<nStarts, phase, doneCloses>>

\* --------------------------------------------------------------- KeyPress
\* Lines 198-200: the guard.
KeyPressGuard == ptmx # 0

\* e.ptmx.Write(key), line 203, for each of n events: every write fails on
\* a closed file; on an open one a write succeeds, or fails once the child
\* is gone, which may happen at any point of the loop.
WriteOutcomes(n) ==
  IF ~fileOpen[ptmx] THEN {[k \in 1..n |-> FALSE]}
                     ELSE [1..n -> BOOLEAN]

\* A loop that goes on to the next event after a failed write.
KeyLoopIgnoresFailure(ok, idx, n) ==
  IF idx = n THEN "return nil" ELSE "next"

\* Lines 202-207: where the loop goes after the write of event idx of n.
KeyLoopNext(ok, idx, n) ==
  IF ~ok THEN "return err"
  ELSE IF idx = n THEN "return nil" ELSE "next"

\* The loop of lines 202-207 from event idx on, outs[k] telling whether the
\* write of event k succeeds: the events written, the writes attempted and
\* the error returned.
RECURSIVE KeyLoop(_, _, _, _)
KeyLoop(keys, outs, idx, written) ==
  IF idx > Len(keys)
    THEN [written |-> written, att |-> idx - 1, err |-> "nil"]
    ELSE LET w   == IF outs[idx] THEN Append(written, keys[idx]) ELSE written
             nxt == KeyLoopNext(outs[idx], idx, Len(keys))
         IN  CASE nxt = "next"       -> KeyLoop(keys, outs, idx + 1, w)
               [] nxt = "return err" ->
                    [written |-> w, att |-> idx, err |-> "write failed"]
               [] OTHER              ->
                    [written |-> w, att |-> idx, err |-> "nil"]

\* KeyPress(e1, ..., en), lines 197-208: the events are opaque byte strings,
\* named here by their position in the argument list.  The writes go to the
\* pty and touch nothing of the session, so the call is one step.
KeyPress(n) ==
  /\ Enter("KeyPress")
  /\ ret' = <<>> /\ cpc' = "done"
  /\ LET evs == [k \in 1..n |-> k] IN
     IF ~KeyPressGuard
       THEN /\ lastErr' = "emulator not started"
            /\ loc' = [Locals EXCEPT !.keys = evs]
       ELSE \E outs \in WriteOutcomes(n) :
              LET res == KeyLoop(evs, outs, 1, <<>>) IN
              /\ lastErr' = res.err
              /\ loc' = [Locals EXCEPT !.keys = evs, !.outs = outs,
                                       !.written = res.written,
                                       !.att = res.att]
  /\ UNCHANGED <<emuVars, extVars, vtVars, rdVars, nStarts, phase, doneCloses>>

\* ------------------------------------------------------------------- Next
Next ==
  \/ \E path \in {"sh"} : Command(path)
  \/ Start
  \/ Return
  \/ \E k \in Ids : ChildWrite(k)
  \/ \E k \in Ids : ChildExit(k)
  \/ \E i \in Ids : ReaderRead(i)
  \/ \E i \in Ids : ReaderFeed(i)
  \/ \E i \in Ids : ReaderFlush(i)
  \/ CloseBegin
  \/ CloseFinish
  \/ \E r \in Dims, c \in Dims : Resize(r, c)
  \/ SnapCall
  \/ SnapRow
  \/ \E row \in 0..MaxDim : GetLine(row)
  \/ \E n \in 0..MaxEvents : KeyPress(n)

Spec == Init /\ [][Next]_vars

\* ========================================================== polling calls
\* WaitStable and WaitFor (emulator.go) and assertWithRetry (assert.go) are
\* loops of the caller goroutine that look at the session only through
\* GetScreenText and GetLine: whatever the reader has fed to the engine
\* between two polls, a poll sees some screen and a check returns some
\* verdict.  SpecPoll models these loops against every sequence of screens
\* and of verdicts; time is counted in nanoseconds from the call on, and a
\* sleep takes exactly its duration.

\* ------------------------------------------------------------------ bounds
MaxQuiet    == 4    \* longest quiet period of WaitStable, in ticks
MaxTimeout  == 4    \* longest timeout of WaitStable, in ticks
MaxForTicks == 12   \* longest timeout of WaitFor, in ticks
MaxAttempts == 3    \* largest WithAssertMaxAttempts argument
MaxDelay    == 3    \* largest WithAssertInitialDelay argument, in ns

\* ------------------------------------------------------------- vocabulary
Millisecond == 1000000                  \* time.Millisecond, in ns
Tick        == 5 * Millisecond          \* granularity of the durations tried
Durations(n) == {k * Tick : k \in 0..n}

\* The screens a poll can see and the texts WaitFor is asked to find.
Screens == {<<>>, <<Narrow>>, <<Narrow, Wide>>}
Texts   == {<<>>, <<Narrow>>, <<Wide>>, <<Wide, Narrow>>}

\* The errors a failing check returns.
Diags   == {"diag a", "diag b"}

\* The factors handed to WithAssertBackoffFactor: 0, 0.5, 1.0, 1.5, 2.0.
Factors == {<<0, 1>>, <<1, 2>>, <<1, 1>>, <<3, 2>>, <<2, 1>>}

\* ------------------------------------------------------------ program text
stablePollInterval == 10 * Millisecond  \* emulator.go line 268
forPollInterval    == 50 * Millisecond  \* emulator.go line 311

defaultMaxAttempts   == 6                 \* assert.go line 11
defaultInitialDelay  == 20 * Millisecond  \* assert.go line 12
defaultBackoffFactor == <<2, 1>>          \* assert.go line 13

\* strings.Contains(s, sub)
Contains(s, sub) ==
  \E i \in 0..(Len(s) - Len(sub)) : SubSeq(s, i + 1, i + Len(sub)) = sub

\* A getter that hands out the field as it was set.
getMaxAttemptsAsSet == assertCfg.maxAttempts

\* assert.go lines 121-140
getMaxAttempts ==
  IF assertCfg.maxAttempts > 0 THEN assertCfg.maxAttempts
                               ELSE defaultMaxAttempts

getInitialDelay ==
  IF assertCfg.initialDelay > 0 THEN assertCfg.initialDelay
                                ELSE defaultInitialDelay

getBackoffFactor ==
  IF assertCfg.backoffFactor[1] > 0 THEN assertCfg.backoffFactor
                                    ELSE defaultBackoffFactor

\* The caller starts a polling call: it is between calls, of this kind and
\* of the other.
PollEnter ==
  /\ cpc = "idle" /\ ppc = "idle"
  /\ now' = 0

\* ------------------------------------------------------------- WaitStable
\* A loop that never gives up.
DeadlineNever(t, deadline) == FALSE

\* time.Now().After(deadline), lines 264 and 307
DeadlinePassed(t, deadline) == t > deadline

\* A stable timer that a changed screen does not reset.
StableSinceFirst(cur, last, since, t) == since

\* Lines 276-285: a changed screen resets the stable timer.
StableSince(cur, last, since, t) == IF cur = last THEN since ELSE t

\* Lines 251-261: the deadline, the initial screen, the stable timer.
WaitStableCall(quiet, timeout) ==
  /\ PollEnter
  /\ \E s \in Screens :
       pl' = [NoPoll EXCEPT !.op = "WaitStable",
                            !.quiet = quiet, !.timeout = timeout,
                            !.deadline = timeout,
                            !.lastScreen = s, !.stableStart = 0,
                            !.polls = <<[t |-> 0, s |-> s]>>]
  /\ ppc' = "stable"
  /\ UNCHANGED <<sessionVars, dslVars>>
  /\ UNCHANGED assertCfg

\* Lines 263-286: one iteration of the loop.
WaitStableLoop ==
  /\ ppc = "stable"
  /\ IF DeadlinePassed(now, pl.deadline)
       THEN /\ pl' = [pl EXCEPT !.res = "false"]
            /\ ppc' = "done"
            /\ UNCHANGED now
       ELSE \E s \in Screens :
              LET t == now + stablePollInterval
                  stable == s = pl.lastScreen
                              /\ t - pl.stableStart >= pl.quiet
              IN  /\ now' = t
                  /\ pl' = [pl EXCEPT
                       !.polls = Append(@, [t |-> t, s |-> s]),
                       !.stableStart = StableSince(s, pl.lastScreen, @, t),
                       !.lastScreen = s,
                       !.res = IF stable THEN "true" ELSE @]
                  /\ ppc' = IF stable THEN "done" ELSE "stable"
  /\ UNCHANGED <<sessionVars, dslVars>>
  /\ UNCHANGED assertCfg

\* ---------------------------------------------------------------- WaitFor
\* A loop that looks at the deadline before it looks at the screen.
WaitForDeadlineFirst(s, text, t, deadline) ==
  IF DeadlinePassed(t, deadline) THEN "timeout"
  ELSE IF Contains(s, text) THEN "nil" ELSE "sleep"

\* Lines 303-311: what the loop does with the snapshot it has taken.
WaitForVerdict(s, text, t, deadline) ==
  IF Contains(s, text) THEN "nil"
  ELSE IF DeadlinePassed(t, deadline) THEN "timeout" ELSE "sleep"

\* Line 293
WaitForCall(text, timeout) ==
  /\ PollEnter
  /\ pl' = [NoPoll EXCEPT !.op = "WaitFor", !.text = text,
                          !.timeout = timeout, !.deadline = timeout]
  /\ ppc' = "for"
  /\ UNCHANGED <<sessionVars, dslVars>>
  /\ UNCHANGED assertCfg

\* Lines 296-312: one iteration of the loop.
WaitForLoop ==
  /\ ppc = "for"
  /\ \E s \in Screens :
       LET v == WaitForVerdict(s, pl.text, now, pl.deadline) IN
       /\ pl' = [pl EXCEPT
            !.polls = Append(@, [t |-> now, s |-> s]),
            !.lastScreen = s,
            !.res = IF v = "sleep" THEN @ ELSE v,
            !.shown = IF v = "timeout" THEN s ELSE @]
       /\ ppc' = IF v = "sleep" THEN "for" ELSE "done"
       /\ now' = IF v = "sleep" THEN now + forPollInterval ELSE now
  /\ UNCHANGED <<sessionVars, dslVars>>
  /\ UNCHANGED assertCfg

\* ------------------------------------------------------ retry configuration
\* assert.go lines 143-158: the value is stored as it is given.
WithAssertMaxAttempts(n) ==
  /\ cpc = "idle" /\ ppc = "idle"
  /\ assertCfg' = [assertCfg EXCEPT !.maxAttempts = n]
  /\ UNCHANGED <<sessionVars, dslVars>>
  /\ UNCHANGED <<now, ppc, pl>>

WithAssertInitialDelay(d) ==
  /\ cpc = "idle" /\ ppc = "idle"
  /\ assertCfg' = [assertCfg EXCEPT !.initialDelay = d]
  /\ UNCHANGED <<sessionVars, dslVars>>
  /\ UNCHANGED <<now, ppc, pl>>

WithAssertBackoffFactor(f) ==
  /\ cpc = "idle" /\ ppc = "idle"
  /\ assertCfg' = [assertCfg EXCEPT !.backoffFactor = f]
  /\ UNCHANGED <<sessionVars, dslVars>>
  /\ UNCHANGED <<now, ppc, pl>>

\* -------------------------------------------------------- assertWithRetry
\* A check whose success the loop does not notice.
PassedNever(err) == FALSE

\* Line 92: err == nil
Passed(err) == err = "nil"

\* A loop that sleeps after every failed attempt.
SleepsAfterAll(attempt, maxAttempts) == TRUE

\* Line 99: no sleep after the last attempt.
SleepsAfter(attempt, maxAttempts) == attempt < maxAttempts - 1

\* A loop that sleeps the same delay every time.
NextDelayKept(delay, f) == delay

\* Line 101: time.Duration(float64(delay) * backoffFactor); the conversion
\* to time.Duration drops the fraction.
NextDelay(delay, f) == (delay * f[1]) \div f[2]

\* Lines 85-89 of a call of AssertLineEqual, AssertScreenEqual or
\* AssertScreenContains.
AssertCall ==
  /\ PollEnter
  /\ pl' = [NoPoll EXCEPT !.op = "Assert",
                          !.maxAttempts = getMaxAttempts,
                          !.delay = getInitialDelay,
                          !.backoffFactor = getBackoffFactor]
  /\ ppc' = "retry"
  /\ UNCHANGED <<sessionVars, dslVars>>
  /\ UNCHANGED assertCfg

\* Lines 91-108: one attempt, or the end of the loop and the report.
RetryLoop ==
  /\ ppc = "retry"
  /\ IF pl.attempt < pl.maxAttempts
       THEN \E err \in {"nil"} \cup Diags :
              LET outs == Append(pl.outcomes, err) IN
              IF Passed(err)
                THEN /\ pl' = [pl EXCEPT !.outcomes = outs, !.res = "nil"]
                     /\ ppc' = "done"
                     /\ UNCHANGED now
                ELSE IF SleepsAfter(pl.attempt, pl.maxAttempts)
                  THEN /\ pl' = [pl EXCEPT
                            !.outcomes = outs, !.lastErr = err,
                            !.sleeps = Append(@, pl.delay),
                            !.delay = NextDelay(@, pl.backoffFactor),
                            !.attempt = @ + 1]
                       /\ now' = now + pl.delay
                       /\ UNCHANGED ppc
                  ELSE /\ pl' = [pl EXCEPT
                            !.outcomes = outs, !.lastErr = err,
                            !.attempt = @ + 1]
                       /\ UNCHANGED <<now, ppc>>
       ELSE /\ pl' = [pl EXCEPT
                 !.fatal = IF pl.lastErr # "nil"
                             THEN Append(@, pl.lastErr) ELSE @,
                 !.res = IF pl.lastErr # "nil" THEN "fatal" ELSE "nil"]
            /\ ppc' = "done"
            /\ UNCHANGED now
  /\ UNCHANGED <<sessionVars, dslVars>>
  /\ UNCHANGED assertCfg

\* The caller has looked at the result of a polling call and goes on.
PollReturn ==
  /\ ppc = "done"
  /\ ppc' = "idle" /\ pl' = NoPoll /\ now' = 0
  /\ UNCHANGED <<sessionVars, dslVars>>
  /\ UNCHANGED assertCfg

\* --------------------------------------------------------------- SpecPoll
\* The polling loops do not look at the geometry: one size stands for all.
InitPoll == Init /\ rows = MaxDim /\ cols = MaxDim

NextPoll ==
  \/ \E q \in Durations(MaxQuiet), t \in Durations(MaxTimeout) :
       WaitStableCall(q, t)
  \/ WaitStableLoop
  \/ \E text \in Texts, t \in Durations(MaxForTicks) : WaitForCall(text, t)
  \/ WaitForLoop
  \/ \E n \in -1..MaxAttempts : WithAssertMaxAttempts(n)
  \/ \E d \in 0..MaxDelay : WithAssertInitialDelay(d)
  \/ \E f \in Factors : WithAssertBackoffFactor(f)
  \/ AssertCall
  \/ RetryLoop
  \/ PollReturn

SpecPoll == InitPoll /\ [][NextPoll]_vars

\* ------------------------------------------------------ AssertScreenEqual
MaxText == 3        \* longest expectation and longest snapshot tried

\* The expectations handed to AssertScreenEqual and the snapshots its check
\* reads: blanks, line breaks and a glyph.
CheckTexts ==
  UNION {[1..n -> {Space, NL, Narrow}] : n \in 0..MaxText}

\* unicode.IsSpace on the characters of a snapshot
IsSpace(ch) == ch \in {Space, NL}

\* strings.TrimSpace
RECURSIVE TrimSpace(_)
TrimSpace(str) ==
  IF str # <<>> /\ IsSpace(Head(str)) THEN TrimSpace(Tail(str))
  ELSE IF str # <<>> /\ IsSpace(str[Len(str)])
    THEN TrimSpace(SubSeq(str, 1, Len(str) - 1))
    ELSE str

\* A check that compares the snapshot as it was read.
GotAsRead(got) == got

\* assert.go line 55: got = strings.TrimSpace(got)
NormalizeGot(got) == TrimSpace(got)

\* assert.go lines 46-61: one run of the check of AssertScreenEqual(t, want)
\* against the snapshot got that GetScreenText returns.
ScreenEqualCheck(want, got) ==
  /\ PollEnter
  /\ pl' = [NoPoll EXCEPT
       !.op = "AssertScreenEqual", !.text = want, !.lastScreen = got,
       !.res = IF NormalizeGot(got) # TrimSpace(want)
                 THEN "screen mismatch" ELSE "nil"]
  /\ ppc' = "done"
  /\ UNCHANGED <<sessionVars, dslVars>>
  /\ UNCHANGED assertCfg

NextCheck ==
  \/ \E want \in CheckTexts, got \in CheckTexts : ScreenEqualCheck(want, got)
  \/ PollReturn

SpecCheck == InitPoll /\ [][NextCheck]_vars

\* =========================================================== keys package
\* The DSL compiler (keys.Parse, keys.ParseWithOptions, parseSpecialKey) and
\* its interpreter KeyPressStringWithOptions.  A Go string is a sequence of
\* bytes; the inputs tried are ASCII.

\* The byte of each printable ASCII character, from ' ' (32) to '~' (126);
\* "grave" stands for the grave accent (96).
Code ==
  LET Ascii == <<
        " ", "!", "\"", "#", "$", "%", "&", "'", "(", ")", "*", "+",
        ",", "-", ".", "/", "0", "1", "2", "3", "4", "5", "6", "7",
        "8", "9", ":", ";", "<", "=", ">", "?", "@", "A", "B", "C",
        "D", "E", "F", "G", "H", "I", "J", "K", "L", "M", "N", "O",
        "P", "Q", "R", "S", "T", "U", "V", "W", "X", "Y", "Z", "[",
        "\\", "]", "^", "_", "grave", "a", "b", "c", "d", "e", "f", "g",
        "h", "i", "j", "k", "l", "m", "n", "o", "p", "q", "r", "s",
        "t", "u", "v", "w", "x", "y", "z", "{", "|", "}", "~">>
  IN  [c \in {Ascii[i] : i \in 1..Len(Ascii)} |->
         31 + (CHOOSE i \in 1..Len(Ascii) : Ascii[i] = c)]

\* The bytes of a string.
B(cs) == [i \in 1..Len(cs) |-> Code[cs[i]]]

\* unicode.ToLower, unicode.ToUpper on a byte; strings.ToLower,
\* strings.ToUpper
\* 'A'..'Z' are 65..90 and 'a'..'z' are 97..122.
LowerByte(b) == IF b \in 65..90 THEN b + 32 ELSE b
UpperByte(b) == IF b \in 97..122 THEN b - 32 ELSE b
ToLower(str) == [i \in 1..Len(str) |-> LowerByte(str[i])]
ToUpper(str) == [i \in 1..Len(str) |-> UpperByte(str[i])]

\* strings.HasPrefix
HasPrefix(str, prefix) ==
  Len(str) >= Len(prefix) /\ SubSeq(str, 1, Len(prefix)) = prefix

\* strings.TrimSpace on bytes: blanks, \t, \n, \v, \f, \r
RECURSIVE TrimSpaceBytes(_)
TrimSpaceBytes(str) ==
  LET IsSpaceByte(b) == b \in {32} \cup 9..13 IN
  IF str # <<>> /\ IsSpaceByte(Head(str)) THEN TrimSpaceBytes(Tail(str))
  ELSE IF str # <<>> /\ IsSpaceByte(str[Len(str)])
    THEN TrimSpaceBytes(SubSeq(str, 1, Len(str) - 1))
    ELSE str

\* strconv.Atoi: an optional sign ('+' 43, '-' 45) and decimal digits
\* ('0'..'9' are 48..57); ok tells whether the string is a number.
RECURSIVE DigitsValue(_)
DigitsValue(ds) ==
  IF ds = <<>> THEN 0
  ELSE 10 * DigitsValue(SubSeq(ds, 1, Len(ds) - 1))
         + (ds[Len(ds)] - 48)

Atoi(str) ==
  LET IsDigit(b) == b \in 48..57
      signed == str # <<>> /\ str[1] \in {43, 45}
      ds == IF signed THEN Tail(str) ELSE str
  IN  IF ds = <<>> \/ \E i \in 1..Len(ds) : ~IsDigit(ds[i])
        THEN [n |-> 0, ok |-> FALSE]
        ELSE [n |-> IF signed /\ str[1] = 45
                      THEN 0 - DigitsValue(ds) ELSE DigitsValue(ds),
              ok |-> TRUE]

\* ------------------------------------------------------------ key tokens
\* keys.go: the byte sequences of the keys; ESC is 27.
Keys ==
  [Tab       |-> <<9>>,
   Enter     |-> <<13>>,
   Backspace |-> <<127>>,
   Delete    |-> <<27>> \o B(<<"[", "3", "~">>),
   Escape    |-> <<27>>,
   Space     |-> B(<<" ">>),
   Up        |-> <<27>> \o B(<<"[", "A">>),
   Down      |-> <<27>> \o B(<<"[", "B">>),
   Right     |-> <<27>> \o B(<<"[", "C">>),
   Left      |-> <<27>> \o B(<<"[", "D">>),
   Home      |-> <<27>> \o B(<<"[", "H">>),
   End       |-> <<27>> \o B(<<"[", "F">>),
   PageUp    |-> <<27>> \o B(<<"[", "5", "~">>),
   PageDown  |-> <<27>> \o B(<<"[", "6", "~">>)]

\* keys.Text, keys.Alt
Text(str) == str
Alt(ch)   == <<27, ch>>

\* keys.F(n): the sequence of function key n, nil outside F1..F24.
F(n) == IF n \in 1..24 THEN <<27>> \o B(<<"[", "F">>) \o <<n>> ELSE <<>>

\* The tokens of the two directives, lines 403 and 409.
WAITSTABLE == B(<<"_", "_", "W", "A", "I", "T", "S", "T", "A", "B", "L", "E", "_", "_">>)
WAITFOR    == B(<<"_", "_", "W", "A", "I", "T", "F", "O", "R", "_", "_">>)

\* ---------------------------------------------------------- parseSpecialKey
Found(key) == [key |-> key, err |-> "nil"]
Failed(err) == [key |-> <<>>, err |-> err]

\* A comparison of the name as it is spelled.
NameAsSpelled(name) == name

\* Line 373: the switch compares strings.ToLower(name).
SwitchName(name) == ToLower(name)

\* A letter taken as it is spelled.
CtrlLetterAsSpelled(b) == b

\* Line 414: ch := unicode.ToLower(rune(name[2]))
CtrlLetter(b) == LowerByte(b)

\* Lines 373-404: the cases of the switch, as pairs <<name, key>>.
NamedKeys ==
  {<<B(<<"t", "a", "b">>), Keys.Tab>>,
   <<B(<<"e", "n", "t", "e", "r">>), Keys.Enter>>,
   <<B(<<"c", "r">>), Keys.Enter>>,
   <<B(<<"b", "s">>), Keys.Backspace>>,
   <<B(<<"b", "a", "c", "k", "s", "p", "a", "c", "e">>), Keys.Backspace>>,
   <<B(<<"d", "e", "l">>), Keys.Delete>>,
   <<B(<<"d", "e", "l", "e", "t", "e">>), Keys.Delete>>,
   <<B(<<"e", "s", "c">>), Keys.Escape>>,
   <<B(<<"e", "s", "c", "a", "p", "e">>), Keys.Escape>>,
   <<B(<<"s", "p", "a", "c", "e">>), Keys.Space>>,
   <<B(<<"u", "p">>), Keys.Up>>,
   <<B(<<"d", "o", "w", "n">>), Keys.Down>>,
   <<B(<<"l", "e", "f", "t">>), Keys.Left>>,
   <<B(<<"r", "i", "g", "h", "t">>), Keys.Right>>,
   <<B(<<"h", "o", "m", "e">>), Keys.Home>>,
   <<B(<<"e", "n", "d">>), Keys.End>>,
   <<B(<<"p", "a", "g", "e", "u", "p">>), Keys.PageUp>>,
   <<B(<<"p", "a", "g", "e", "d", "o", "w", "n">>), Keys.PageDown>>,
   <<B(<<"w", "a", "i", "t", "s", "t", "a", "b", "l", "e">>), WAITSTABLE>>}

\* Lines 407, 413, 422 and 432: the prefixes.
Prefixes ==
  [waitfor |-> B(<<"w", "a", "i", "t", "f", "o", "r", " ">>),
   ctrl    |-> B(<<"c", "-">>),
   alt     |-> B(<<"a", "-">>),
   f       |-> B(<<"F">>)]

\* A parser that hands every number to F and takes what comes back.
FunctionKeyUnchecked(num) ==
  IF ~num.ok THEN Failed("invalid function key") ELSE Found(F(num.n))

\* Lines 433-443: the number after F.
FunctionKey(num) ==
  IF ~num.ok THEN Failed("invalid function key")
  ELSE IF F(num.n) = <<>> THEN Failed("function key out of range")
  ELSE Found(F(num.n))

\* Lines 371-446
parseSpecialKey(name) ==
  LET low == SwitchName(name) IN
  IF \E c \in NamedKeys : c[1] = low
    THEN Found((CHOOSE c \in NamedKeys : c[1] = low)[2])
  ELSE IF HasPrefix(ToLower(name), Prefixes.waitfor)
    THEN Found(WAITFOR \o TrimSpaceBytes(SubSeq(name, 9, Len(name))))
  ELSE IF HasPrefix(ToLower(name), Prefixes.ctrl) /\ Len(name) = 3
    THEN LET ch == CtrlLetter(name[3]) IN
         IF ch >= 97 /\ ch <= 122
           THEN Found(<<ch - 97 + 1>>)
           ELSE Failed("invalid ctrl key")
  ELSE IF HasPrefix(ToLower(name), Prefixes.alt) /\ Len(name) = 3
    THEN LET ch == name[3] IN
         IF (ch >= 97 /\ ch <= 122) \/ (ch >= 65 /\ ch <= 90)
           THEN Found(Alt(ch))
           ELSE Failed("invalid alt key")
  ELSE IF HasPrefix(ToUpper(name), Prefixes.f)
    THEN FunctionKey(Atoi(Tail(name)))
  ELSE Failed("unknown key")

\* ---------------------------------------------------------- ParseWithOptions
\* Lines 290-296
DefaultParseOptions == [TagStart |-> Code["<"], TagEnd |-> Code[">"]]

\* byte(opts.TagStart), lines 320-321: the conversion keeps the low 8 bits.
ToByte(r) == r % 256

\* A token of the result with the branch that produced it: a flushed text
\* run (lines 334, 365) or a tag (line 356).
Token(bytes, from) == [bytes |-> bytes, from |-> from]

\* A parser that flushes the text run at a doubled opening delimiter.
EscapeSplits(text, result, d) ==
  <<<<>>, Append(result, Token(Text(Append(text, d)), "text"))>>

\* Lines 326-330: a doubled opening delimiter adds one delimiter character
\* to the text run; the pair is <<text run, tokens>>.
EscapeAppends(text, result, d) == <<Append(text, d), result>>

\* A position counted in tokens.
ErrorAtToken(i, result) == Len(result)

\* Lines 347 and 353: the position the error names is the byte offset of the
\* opening delimiter.
ErrorPosition(i, result) == i - 1

\* Lines 347 and 353: return nil, err
ErrorTokens(result) == <<>>

\* Lines 333-336 and 364-366: flush the text run.
Flush(text, result) ==
  IF Len(text) > 0 THEN Append(result, Token(Text(text), "text")) ELSE result

RECURSIVE ParseLoop(_, _, _, _, _)

\* Lines 350-357: the tag from i to j with the key its name resolved to.
TagDone(dsl, opts, i, j, flushed, key) ==
  IF key.err # "nil"
    THEN [tokens |-> ErrorTokens(flushed), err |-> key.err,
          pos |-> ErrorPosition(i, flushed)]
    ELSE ParseLoop(dsl, opts, j + 1, <<>>,
                   Append(flushed, Token(key.key, "tag")))

\* Lines 338-350: the opening delimiter at i, with the places of the closing
\* delimiters after it; the tag ends at the first.
TagOpen(dsl, opts, i, flushed, closes) ==
  IF closes = {}
    THEN [tokens |-> ErrorTokens(flushed), err |-> "unclosed",
          pos |-> ErrorPosition(i, flushed)]
    ELSE LET j == CHOOSE c \in closes : \A d \in closes : c <= d IN
         TagDone(dsl, opts, i, j, flushed,
                 parseSpecialKey(SubSeq(dsl, i + 1, j - 1)))

\* A doubled opening delimiter at i, with the text run and the tokens that
\* result.
Escaped(dsl, opts, i, tr) == ParseLoop(dsl, opts, i + 2, tr[1], tr[2])

\* Lines 323-368; i is the index of the loop counted from 1.
ParseLoop(dsl, opts, i, text, result) ==
  IF i > Len(dsl)
    THEN [tokens |-> Flush(text, result), err |-> "nil", pos |-> 0]
  ELSE IF dsl[i] # ToByte(opts.TagStart)
    THEN ParseLoop(dsl, opts, i + 1, Append(text, dsl[i]), result)
  ELSE IF i + 1 <= Len(dsl) /\ dsl[i + 1] = ToByte(opts.TagStart)
    THEN Escaped(dsl, opts, i,
                 EscapeAppends(text, result, ToByte(opts.TagStart)))
  ELSE TagOpen(dsl, opts, i, Flush(text, result),
               {j \in (i + 1)..Len(dsl) : dsl[j] = ToByte(opts.TagEnd)})

\* The [][]byte returned, with the branch each token came from.
ParseResult(r) ==
  [keys |-> [k \in 1..Len(r.tokens) |-> r.tokens[k].bytes],
   from |-> [k \in 1..Len(r.tokens) |-> r.tokens[k].from],
   err  |-> r.err,
   pos  |-> r.pos]

\* Lines 316-369
ParseWithOptions(dsl, opts) == ParseResult(ParseLoop(dsl, opts, 1, <<>>, <<>>))

\* ------------------------------------------------- inputs of the compiler
MaxPieces == 3      \* pieces a DSL string is joined from
MaxSuffix == 3      \* characters after the F of a function-key tag

\* The supported tag names in their canonical spelling.
TagNames ==
  {B(<<"t", "a", "b">>),
   B(<<"e", "n", "t", "e", "r">>),
   B(<<"c", "r">>),
   B(<<"b", "s">>),
   B(<<"b", "a", "c", "k", "s", "p", "a", "c", "e">>),
   B(<<"d", "e", "l">>),
   B(<<"d", "e", "l", "e", "t", "e">>),
   B(<<"e", "s", "c">>),
   B(<<"e", "s", "c", "a", "p", "e">>),
   B(<<"s", "p", "a", "c", "e">>),
   B(<<"u", "p">>),
   B(<<"d", "o", "w", "n">>),
   B(<<"l", "e", "f", "t">>),
   B(<<"r", "i", "g", "h", "t">>),
   B(<<"h", "o", "m", "e">>),
   B(<<"e", "n", "d">>),
   B(<<"p", "a", "g", "e", "u", "p">>),
   B(<<"p", "a", "g", "e", "d", "o", "w", "n">>),
   B(<<"w", "a", "i", "t", "s", "t", "a", "b", "l", "e">>),
   B(<<"w", "a", "i", "t", "f", "o", "r", " ", "o", "k">>),
   B(<<"c", "-", "a">>),
   B(<<"c", "-", "z">>),
   B(<<"a", "-", "x">>),
   B(<<"f", "1">>),
   B(<<"f", "2", "4">>)}

\* Tag contents that match no supported form.
BadNames ==
  {B(<<"c", "-", "1">>),
   B(<<"c", "-", "a", "b">>),
   B(<<"a", "-", "1">>),
   B(<<"x">>),
   B(<<"f", "0">>),
   B(<<"f", "2", "5">>),
   B(<<"f", "x">>),
   B(<<>>)}

\* Every upper/lower-case spelling of a name.
Casings(w) ==
  {[i \in 1..Len(w) |-> IF i \in U THEN UpperByte(w[i]) ELSE w[i]] :
     U \in SUBSET (1..Len(w))}

\* Lines 283-296: the default delimiters and two custom pairs of runes,
\* '[' ']' and the guillemets U+00AB U+00BB.
Options == {DefaultParseOptions,
            [TagStart |-> Code["["], TagEnd |-> Code["]"]],
            [TagStart |-> 171, TagEnd |-> 187]}

\* The bytes of a character in a Go string (UTF-8), for runes below U+0800.
Utf8(r) == IF r < 128 THEN <<r>> ELSE <<192 + (r \div 64), 128 + (r % 64)>>

\* A name between the delimiters, as a DSL string spells it.
Tagged(name, opts) == Utf8(opts.TagStart) \o name \o Utf8(opts.TagEnd)

\* The pieces DSL strings are put together from.
Pieces ==
  {B(<<"a">>),
   B(<<"<">>),
   B(<<">">>),
   B(<<"<", "<", "b">>),
   B(<<">", ">">>),
   B(<<"<", "T", "a", "b", ">">>),
   B(<<"<", "C", "-", "a", ">">>),
   B(<<"<", "C", "-", "1", ">">>),
   B(<<"<", "x", ">">>),
   B(<<"<", "W", "a", "i", "t", "S", "t", "a", "b", "l", "e", ">">>),
   B(<<"<", "W", "a", "i", "t", "F", "o", "r", " ", "a", ">">>),
   B(<<"_", "_", "W", "A", "I", "T", "S", "T", "A", "B", "L", "E", "_", "_">>),
   B(<<"[">>),
   B(<<"]">>),
   B(<<"[", "T", "a", "b", "]">>),
   B(<<"[", "W", "a", "i", "t", "F", "o", "r", " ", ">", "]">>)}

RECURSIVE Joined(_)
Joined(n) ==
  IF n = 0 THEN {<<>>}
  ELSE Joined(n - 1) \cup {str \o p : str \in Joined(n - 1), p \in Pieces}

\* The strings compiled: joined pieces, single tags in every casing, C-
\* followed by each ASCII character, and F or f followed by up to MaxSuffix
\* digits, signs and letters.
Sources(opts) ==
  Joined(MaxPieces)
    \cup {Tagged(n, opts) : n \in UNION {Casings(w) : w \in TagNames \cup BadNames}}
    \cup {Tagged(c \o <<ch>>, opts) : c \in Casings(Prefixes.ctrl), ch \in 0..127}
    \cup {Tagged(f \o sfx, opts) :
            f \in {Prefixes.f, ToLower(Prefixes.f)},
            sfx \in UNION {[1..n -> {Code[ch] : ch \in
                     {"0", "1", "2", "4", "5", "9", "+", "-", "a", "b", "c"}}] :
                           n \in 0..MaxSuffix}}

\* ---------------------------------------------------- calls of the compiler
KeysEnter == cpc = "idle" /\ ppc = "idle" /\ kpc = "idle"

\* The locals of a call that has compiled dsl with the result p.
Parsed(op, dsl, opts, p) ==
  [NoKeys EXCEPT !.op = op, !.dsl = dsl, !.opts = opts,
                 !.keys = p.keys, !.from = p.from,
                 !.perr = p.err, !.pos = p.pos,
                 !.err = IF op = "KeyPressString" /\ p.err # "nil"
                           THEN "parse DSL" ELSE "nil"]

ParseCall(dsl, opts) ==
  /\ KeysEnter
  /\ kl' = Parsed("Parse", dsl, opts, ParseWithOptions(dsl, opts))
  /\ kpc' = "done"
  /\ UNCHANGED <<sessionVars, pollVars>>

\* ------------------------------------------------ KeyPressStringWithOptions
\* An interpreter that compiles as it goes: it runs the tokens of the longest
\* prefix of the string that compiles.
CompiledLazily(dsl, opts) ==
  LET good == {n \in 0..Len(dsl) :
                 ParseWithOptions(SubSeq(dsl, 1, n), opts).err = "nil"}
      n == CHOOSE m \in good : \A k \in good : k <= m
  IN  ParseWithOptions(SubSeq(dsl, 1, n), opts)

\* emulator.go line 221: the whole string is compiled first.
Compiled(dsl, opts) == ParseWithOptions(dsl, opts)

\* emulator.go lines 228 and 232: the call a token stands for.
CallOf(key) ==
  IF key = WAITSTABLE THEN "WaitStable"
  ELSE IF HasPrefix(key, WAITFOR) THEN "WaitFor"
  ELSE "KeyPress"

\* An interpreter that goes on after a failure.
HaltsNever(res) == FALSE

\* emulator.go lines 229-243: every failure returns.
Halts(res) == res # "nil"

\* emulator.go lines 220-224: compile, and return the error before the loop.
KeyPressStringWithOptions(dsl, opts) ==
  /\ KeysEnter
  /\ kl' = Parsed("KeyPressString", dsl, opts, Compiled(dsl, opts))
  /\ kpc' = IF kl'.perr # "nil" \/ kl'.keys = <<>> THEN "done" ELSE "run"
  /\ UNCHANGED <<sessionVars, pollVars>>

\* emulator.go lines 214-216
KeyPressString(dsl) == KeyPressStringWithOptions(dsl, DefaultParseOptions)

\* emulator.go lines 226-243: one turn of the loop.  The call made for the
\* token either succeeds or fails; after the last token the loop ends and
\* nil is returned.
KeyStep(res) ==
  /\ kpc = "run"
  /\ LET key  == kl.keys[kl.idx + 1]
         call == CallOf(key)
         arg  == IF call = "WaitFor"
                   THEN SubSeq(key, Len(WAITFOR) + 1, Len(key))
                   ELSE IF call = "WaitStable" THEN <<>> ELSE key
     IN  /\ kl' = [kl EXCEPT !.idx = @ + 1,
                             !.ran = Append(@, [call |-> call, arg |-> arg,
                                                res |-> res]),
                             !.err = IF Halts(res) THEN call \o " failed"
                                                   ELSE @]
         /\ kpc' = IF Halts(res) \/ kl.idx + 1 = Len(kl.keys)
                     THEN "done" ELSE "run"
  /\ UNCHANGED <<sessionVars, pollVars>>

KeysReturn ==
  /\ kpc = "done"
  /\ kpc' = "idle"
  /\ kl' = NoKeys
  /\ UNCHANGED <<sessionVars, pollVars>>

NextKeys ==
  \/ KeysEnter /\ \E opts \in Options : \E dsl \in Sources(opts) :
                    ParseCall(dsl, opts)
  \/ KeysEnter /\ \E dsl \in Joined(MaxPieces) : KeyPressString(dsl)
  \/ KeysEnter /\ \E opts \in Options \ {DefaultParseOptions} :
                    \E dsl \in Joined(MaxPieces) :
                      KeyPressStringWithOptions(dsl, opts)
  \/ \E res \in {"nil", "failed"} : KeyStep(res)
  \/ KeysReturn

SpecKeys == InitPoll /\ [][NextKeys]_vars

\* --------------------------------------------------------------- SpecGrid
\* Every content the grid of an engine of nr rows and nc columns can have.
\* A cell holds one of the cases getLine tells apart: blank or empty, or a
\* glyph of width 1, 2 or 0.
Grids(nr, nc) ==
  {Crop(g, nr, nc) : g \in [Idx -> [Idx -> {Space, Narrow, Wide, ZeroW}]]}

\* A session after New(rows, cols), Command and a successful Start whose
\* engine has interpreted what the child has printed so far; the child is
\* quiet and the reader waits in Read.
InitGrid ==
  /\ rows \in Dims /\ cols \in Dims
  /\ commandPath = "sh" /\ cmd = 1 /\ ptmx = 1 /\ vt = 1 /\ screen = 1
  /\ mu = Free /\ readerDone = "open"
  /\ fileOpen = [k \in Ids |-> k = 1]
  /\ child = [k \in Ids |-> IF k = 1 THEN "running" ELSE "none"]
  /\ pout = [k \in Ids |-> <<>>]
  /\ emitted = 0 /\ ptyRows = rows /\ ptyCols = cols
  /\ vtRows = rows /\ vtCols = cols /\ grid \in Grids(rows, cols)
  /\ vtFreed = FALSE /\ dirty = FALSE
  /\ rpc = [k \in Ids |-> IF k = 1 THEN "read" ELSE "none"]
  /\ rfile = [k \in Ids |-> IF k = 1 THEN 1 ELSE 0]
  /\ rbuf = [k \in Ids |-> 0]
  /\ rlog = [k \in Ids |-> [err |-> FALSE, got |-> <<>>, fed |-> <<>>]]
  /\ cpc = "idle" /\ loc = NoLoc /\ ret = <<>>
  /\ lastOp = "-" /\ lastErr = "nil"
  /\ nStarts = 1 /\ phase = "Running"
  /\ prevResize = <<0, 0>> /\ doneCloses = 0
  /\ collectRawBytes = FALSE /\ rawBytes = <<>> /\ unordered = {}
  /\ rawLog = [fed |-> <<>>, got |-> <<>>]
  /\ assertCfg = ZeroCfg
  /\ now = 0 /\ ppc = "idle" /\ pl = NoPoll
  /\ kpc = "idle" /\ kl = NoKeys

\* A cursor that moves by the width runewidth reports.
AdvanceAsMeasured(width) == width

\* screen.go lines 56-59: a width of 0 counts as 1.
Advance(width) == IF width = 0 THEN 1 ELSE width

\* GetLine(row) up to the call of getLine, screen.go lines 70-77 and 30-31:
\* the lock is taken, the row is on the screen, the builder is empty and
\* the column cursor is 0.
RowCall(row) ==
  /\ Enter("getLine")
  /\ screen # 0 /\ row < rows
  /\ SnapAcquire
  /\ loc' = [Locals EXCEPT !.ar = row]
  /\ ret' = <<>> /\ lastErr' = "running" /\ cpc' = "row"
  /\ UNCHANGED <<rows, cols, commandPath, cmd, ptmx, vt, screen, readerDone>>
  /\ UNCHANGED <<extVars, vtVars, rdVars, nStarts, phase, doneCloses>>

\* One iteration of getLine's loop, screen.go lines 33-61: a blank for a
\* cell that is missing or empty, else the cell's first character, written
\* once, and the cursor moved by its width.  After the loop (line 64) the
\* row is returned as built and the deferred Unlock runs.
RowStep ==
  /\ cpc = "row"
  /\ IF loc.col < cols
       THEN LET ch == GetCell(Screen, loc.ar, loc.col) IN
            /\ loc' = [loc EXCEPT
                 !.line = Append(@, ch),
                 !.col = IF ch = Space THEN @ + 1
                                       ELSE @ + Advance(RuneWidth(ch))]
            /\ UNCHANGED <<mu, ret, lastErr, cpc>>
       ELSE /\ ret' = loc.line /\ lastErr' = "nil" /\ cpc' = "done"
            /\ mu' = Free
            /\ UNCHANGED loc
  /\ UNCHANGED <<rows, cols, commandPath, cmd, ptmx, vt, screen, readerDone>>
  /\ UNCHANGED <<extVars, vtVars, rdVars, lastOp, histVars>>
  /\ UNCHANGED <<rawVars, pollVars, dslVars>>

NextGrid ==
  \/ \E row \in Idx : RowCall(row)
  \/ RowStep
  \/ SnapCall
  \/ SnapRow
  \/ \E row \in 0..MaxDim : GetLine(row)
  \/ Return

SpecGrid == InitGrid /\ [][NextGrid]_vars

\* ---------------------------------------------------------------- SpecRaw
\* EnableRawBytesCollection, lines 60-63: the flag is set, in whatever
\* state the session is and without the lock.  The readers that run are
\* not told: their reads of the flag race with the write.
EnableRawBytesCollection ==
  /\ Call("EnableRawBytesCollection")
  /\ collectRawBytes' = TRUE
  /\ unordered' = IF collectRawBytes THEN unordered
                   ELSE {i \in Ids : rpc[i] \in {"read", "feed", "flush"}}
  /\ cpc' = "done" /\ lastErr' = "nil" /\ loc' = Locals /\ ret' = <<>>
  /\ UNCHANGED <<rawBytes, rawLog>>
  /\ UNCHANGED <<emuVars, extVars, vtVars, rdVars, nStarts, phase, doneCloses>>

\* GetRawBytes, lines 351-363: under the lock, nil if the flag is not set,
\* else a copy of e.rawBytes.  Its unlock orders the caller's write of the
\* flag before whatever a reader does under the lock from now on.  rawLog
\* keeps the result with the number of chunks fed when the call ran.
GetRawBytes ==
  /\ Call("GetRawBytes")
  /\ Len(rawLog.got) < MaxGets
  /\ mu = Free
  /\ ret' = IF collectRawBytes THEN rawBytes ELSE <<>>
  /\ rawLog' = [rawLog EXCEPT !.got = Append(@,
                  [nil |-> ~collectRawBytes, bytes |-> ret',
                   at |-> Len(rawLog.fed)])]
  /\ unordered' = {}
  /\ cpc' = "done" /\ lastErr' = "nil" /\ loc' = Locals
  /\ UNCHANGED <<collectRawBytes, rawBytes>>
  /\ UNCHANGED <<emuVars, extVars, vtVars, rdVars, nStarts, phase, doneCloses>>

\* One session from New on that is not closed: its children and readers,
\* and the raw bytes.
NextRaw ==
  \/ \E path \in {"sh"} : Command(path)
  \/ Start
  \/ Return
  \/ \E k \in Ids : ChildWrite(k)
  \/ \E k \in Ids : ChildExit(k)
  \/ \E i \in Ids : ReaderRead(i)
  \/ \E i \in Ids : ReaderFeed(i)
  \/ \E i \in Ids : ReaderFlush(i)
  \/ EnableRawBytesCollection
  \/ GetRawBytes

SpecRaw == Init /\ [][NextRaw]_vars

\* --------------------------------------------------------------- SpecLock
\* One session and its lock: not yet started, or started with a child that
\* has printed nothing yet.
InitLock == Init \/ (InitGrid /\ grid = BlankGrid)

\* The operations that take the lock, with the child, the reader and Close.
NextLock ==
  \/ Return
  \/ \E k \in Ids : ChildWrite(k)
  \/ \E k \in Ids : ChildExit(k)
  \/ \E i \in Ids : ReaderRead(i)
  \/ \E i \in Ids : ReaderFeed(i)
  \/ \E i \in Ids : ReaderFlush(i)
  \/ CloseBegin
  \/ CloseFinish
  \/ \E r \in Dims, c \in Dims : Resize(r, c)
  \/ SnapCall
  \/ SnapRow
  \/ \E row \in 0..MaxDim : GetLine(row)

\* The caller goes on after a call and within GetScreenText's row loop.  A
\* reader that holds the lock is runnable whatever the caller does, and the
\* model stops it only while the caller looks at a result: it gets to its
\* flush and unlock if it can again and again.
SpecLock ==
  /\ InitLock /\ [][NextLock]_vars
  /\ WF_vars(Return) /\ WF_vars(SnapRow)
  /\ \A i \in Ids : SF_vars(ReaderFlush(i))

\* ----------------------------------------------------------------- claims
\* C1: Close on a session whose Start failed or was never called returns no
\* error and does not sit out the 2s wait for the reader's signal.
C1_CloseUnstartedIsClean ==
  (cpc = "done" /\ lastOp = "Close" /\ nStarts = 0)
    => (lastErr = "nil" /\ "timeout" \notin loc.errs)

\* C2: Close is idempotent: on a session that was Running, a Close that
\* follows a Close returns success, with no failing pty close and no failing
\* wait for the child.
C2_SecondCloseSucceeds ==
  (cpc = "done" /\ lastOp = "Close" /\ loc.pre = "Closed" /\ nStarts >= 1)
    => (lastErr = "nil" /\ loc.errs \cap {"pty", "wait"} = {})

\* The readLoop goroutines that have not returned.
ActiveReaders == {i \in Ids : rpc[i] \in {"read", "feed", "flush"}}

\* C3: whatever Start and Close calls are made, at most one reader loop is
\* active at a time and the reader's completion signal is fired at most
\* once.
C3_OneReaderOneSignal ==
  /\ Cardinality(ActiveReaders) <= 1
  /\ doneCloses <= 1

\* C4: the session state only moves forward and Closed is terminal: once
\* Close has been called the session never is Running again.
C4_ClosedIsTerminal ==
  [][/\ phase = "Closed" => phase' = "Closed"
     /\ phase = "Running" => phase' # "New"]_vars

\* C5: the reader, Resize and the snapshot extraction touch the engine
\* only with the session lock held, and a snapshot is the text of the grid
\* as it stands between whole feed+flush and Resize steps.
C5_SnapshotOfWholeGrid ==
  /\ \A i \in Ids : rpc[i] = "flush" => mu = i
  /\ cpc = "snap" => mu = Caller
  /\ (cpc = "done" /\ lastOp = "GetScreenText" /\ screen # 0)
       => (~dirty /\ ret = ScreenText(Screen, rows, cols))

\* C6: whenever no Resize is under way, the recorded size, the size of the
\* pty and the size of the engine are the same, also after a Resize that
\* returned an error.
C6_GeometriesAgree ==
  ptmx # 0 => /\ rows = ptyRows /\ cols = ptyCols
              /\ rows = vtRows /\ cols = vtCols

C8_KeyPressNeedsRunning ==
  (cpc = "done" /\ lastOp = "KeyPress" /\ loc.pre # "Running")
    => (lastErr # "nil" /\ loc.att = 0)

\* C9: KeyPress(e1..en) on a Running session writes the events in argument
\* order; if the write of event k fails it returns that error, events
\* 1..k-1 have been written and no write after the k-th is attempted; it
\* returns success only if all n writes succeeded.
C9_KeyPressWritesPrefix ==
  (cpc = "done" /\ lastOp = "KeyPress" /\ loc.pre = "Running")
    => LET n == Len(loc.keys)
           w == loc.written
           k == Len(loc.written) + 1
       IN  /\ w = SubSeq(loc.keys, 1, Len(w))
           /\ IF lastErr = "nil"
                THEN /\ w = loc.keys
                     /\ \A j \in 1..n : loc.outs[j]
                     /\ loc.att = n
                ELSE /\ lastErr = "write failed"
                     /\ k <= n /\ ~loc.outs[k]
                     /\ loc.att = k

\* C9, witness: on a Running session the write of the first of two events
\* fails; the second, which the pty would have taken, is not written.
C9_Witness ==
  /\ cpc = "done" /\ lastOp = "KeyPress" /\ loc.pre = "Running"
  /\ loc.keys = <<1, 2>> /\ loc.outs = <<FALSE, TRUE>>
  /\ lastErr = "write failed" /\ loc.written = <<>>

\* C10: when Start returns an error, no reader has been spawned and no pty
\* and no engine is attached to the session.
C10_FailedStartLeavesNothing ==
  (cpc = "done" /\ lastOp = "Start" /\ lastErr # "nil")
    => /\ ptmx = 0 /\ vt = 0 /\ screen = 0
       /\ \A i \in Ids : rpc[i] = "none"

\* C11: Command (as Env and Dir) called on a Running session fails with a
\* configuration error and leaves the configured command as it was.
C11_ConfigureWhileRunningFails ==
  [][(phase = "Running" /\ cpc = "idle" /\ lastOp' = "Command")
       => (lastErr' # "nil" /\ commandPath' = commandPath)]_vars

\* The five cleanup phases of Close.
CleanupPhases == {"pty close", "kill", "wait", "reader wait", "teardown"}

\* C12: Close on a started session attempts every cleanup phase whatever
\* earlier phases failed, and returns an error exactly when a phase
\* reported an error that is not ignored.
C12_CloseRunsEveryPhase ==
  (cpc = "done" /\ lastOp = "Close" /\ nStarts >= 1)
    => /\ loc.tried = CleanupPhases
       /\ lastErr # "nil" <=> loc.errs # {}

\* C13: Close never waits for the reader without bound: at the select it
\* can always go on; it records a timeout error exactly when the reader has
\* not signalled, and it has torn down the engine when it returns.
C13_CloseWaitIsBounded ==
  /\ cpc = "close_select" => ENABLED CloseFinish
  /\ (cpc = "done" /\ lastOp = "Close")
       => /\ "timeout" \in loc.errs <=> readerDone = "open"
          /\ "reader wait" \in loc.tried
          /\ vt # 0 => vtFreed /\ "teardown" \in loc.tried

\* C13, witness: Close of a started session has given up on a reader that
\* had not signalled, reports the timeout and has torn down the engine.
C13_Witness ==
  /\ cpc = "done" /\ lastOp = "Close" /\ loc.pre = "Running"
  /\ readerDone = "open" /\ loc.errs = {"timeout"}
  /\ vtFreed /\ lastErr = "close errors"

\* The last poll of the call that saw a screen other than the poll before it
\* did (the first poll, if there is none).
LastChange ==
  CHOOSE i \in 1..Len(pl.polls) :
    /\ i = 1 \/ pl.polls[i].s # pl.polls[i - 1].s
    /\ \A j \in (i + 1)..Len(pl.polls) : pl.polls[j].s = pl.polls[j - 1].s

\* C14: WaitStable returns true only when the last poll saw the screen of
\* the poll before it and at least quiet has passed since the last poll that
\* saw a changed screen (the first poll, if none did).
C14_StableMeansQuiet ==
  (ppc = "done" /\ pl.op = "WaitStable" /\ pl.res = "true")
    => /\ Len(pl.polls) >= 2
       /\ LastChange < Len(pl.polls)
       /\ now - pl.polls[LastChange].t >= pl.quiet

\* C14, witness: WaitStable has returned true after a poll that saw a changed
\* screen, a positive quiet period later.
C14_Witness ==
  /\ ppc = "done" /\ pl.op = "WaitStable" /\ pl.res = "true"
  /\ pl.quiet > 0 /\ LastChange > 1

\* C15: WaitStable returns true only if the quiet period was over by the
\* deadline; it returns false when every poll saw a changed screen; it
\* returns true when the screen stopped changing so early that the quiet
\* period was over by the deadline.
C15_StableWithinTimeout ==
  (ppc = "done" /\ pl.op = "WaitStable")
    => /\ pl.res = "true"
            => pl.polls[LastChange].t + pl.quiet <= pl.deadline
       /\ LastChange = Len(pl.polls) /\ Len(pl.polls) > 1
            => pl.res = "false"
       /\ pl.res = "false"
            => pl.polls[LastChange].t + pl.quiet > pl.deadline

\* The polls a loop with the given timeout and interval makes at most.
MostPolls(timeout, interval) == timeout \div interval + 2

C17_WaitForFindsText ==
  (ppc = "done" /\ pl.op = "WaitFor")
    => LET n == Len(pl.polls)
           hits == {i \in 1..n : Contains(pl.polls[i].s, pl.text)}
       IN  /\ n >= 1
           /\ pl.res = "nil" <=> hits # {}
           /\ pl.res = "nil" => hits = {n}
           /\ pl.res # "nil"
                => /\ pl.res = "timeout"
                   /\ now > pl.deadline
                   /\ pl.shown = pl.polls[n].s

\* C17, witness: WaitFor has found, on a later poll, a text that is a proper
\* part of the screen.
C17_Witness ==
  /\ ppc = "done" /\ pl.op = "WaitFor" /\ pl.res = "nil"
  /\ Len(pl.polls) >= 2
  /\ pl.text # <<>> /\ pl.polls[Len(pl.polls)].s # pl.text

\* C17, second witness: WaitFor has given up after the deadline and shows
\* the screen of its last poll, which is not the screen of its first.
C17_WitnessTimeout ==
  /\ ppc = "done" /\ pl.op = "WaitFor" /\ pl.res = "timeout"
  /\ Len(pl.polls) >= 2 /\ pl.shown # pl.polls[1].s

\* The checks of the call that failed.
FailedChecks == {i \in 1..Len(pl.outcomes) : pl.outcomes[i] # "nil"}

C19_LateSuccess ==
  /\ ppc = "retry" => FailedChecks = 1..Len(pl.outcomes)
  /\ (ppc = "done" /\ pl.op = "Assert"
        /\ FailedChecks # 1..Len(pl.outcomes))
       => LET k == Len(pl.outcomes) IN
          /\ k <= getMaxAttempts
          /\ FailedChecks = 1..(k - 1)
          /\ Len(pl.sleeps) = k - 1
          /\ pl.fatal = <<>> /\ pl.res = "nil"
  /\ (pl.op = "Assert" /\ Len(pl.outcomes) < getMaxAttempts
        /\ FailedChecks = 1..Len(pl.outcomes))
       => ppc = "retry" /\ Len(pl.sleeps) = Len(pl.outcomes)

\* C19, witness: an assertion has succeeded on its third poll.
C19_Witness ==
  /\ ppc = "done" /\ pl.op = "Assert" /\ pl.res = "nil"
  /\ Len(pl.outcomes) = 3 /\ Len(pl.sleeps) = 2

\* C20: in every call the delay of a sleep is longer than the delay of the
\* sleep before it.
C20_DelayStrictlyIncreases ==
  \A i \in 1..(Len(pl.sleeps) - 1) : pl.sleeps[i + 1] > pl.sleeps[i]

\* The three settings of the retry policy.
Settings == {"maxAttempts", "initialDelay", "backoffFactor"}

\* C21: a call of WithAssert* changes one setting and leaves the two others;
\* an assertion runs with maxAttempts >= 1, an initial delay > 0 and a
\* factor > 0: each setting as it is set when that is positive, and else
\* its default 6, 20ms, 2.0.
C21_EffectivePolicy ==
  /\ [][assertCfg' # assertCfg
          => Cardinality({f \in Settings : assertCfg'[f] # assertCfg[f]}) = 1]_vars
  /\ [](pl.op = "Assert" =>
          LET first == IF pl.sleeps = <<>> THEN pl.delay ELSE pl.sleeps[1] IN
          /\ pl.maxAttempts >= 1 /\ first > 0 /\ pl.backoffFactor[1] > 0
          /\ pl.maxAttempts = IF assertCfg.maxAttempts >= 1
                                THEN assertCfg.maxAttempts ELSE 6
          /\ first = IF assertCfg.initialDelay >= 1
                       THEN assertCfg.initialDelay ELSE 20 * Millisecond
          /\ pl.backoffFactor = IF assertCfg.backoffFactor[1] >= 1
                                  THEN assertCfg.backoffFactor ELSE <<2, 1>>)

\* C21, witness: an assertion has slept with two attempts and a factor of
\* 1.5 as set and the default delay in place of a delay that was not set.
C21_Witness ==
  /\ pl.op = "Assert" /\ pl.sleeps = <<20 * Millisecond>>
  /\ assertCfg.maxAttempts = 2 /\ pl.maxAttempts = 2
  /\ assertCfg.initialDelay = 0 /\ pl.backoffFactor = <<3, 2>>

\* The text between the first and the last character of str that is not
\* white space.
Core(str) ==
  LET ink == {i \in 1..Len(str) : str[i] \notin {Space, NL}} IN
  IF ink = {} THEN <<>>
  ELSE SubSeq(str, CHOOSE i \in ink : \A j \in ink : i <= j,
                   CHOOSE i \in ink : \A j \in ink : i >= j)

\* C22: the check of AssertScreenEqual passes exactly when the snapshot, as
\* GetScreenText returned it, is the expectation without its leading and
\* trailing white space.
C22_OnlyExpectationTrimmed ==
  (ppc = "done" /\ pl.op = "AssertScreenEqual")
    => (pl.res = "nil" <=> pl.lastScreen = Core(pl.text))

\* C22, amended: the check of AssertScreenEqual passes exactly when the
\* snapshot and the expectation, each without its leading and trailing white
\* space, are the same text.
C22_BothTrimmed ==
  (ppc = "done" /\ pl.op = "AssertScreenEqual")
    => (pl.res = "nil" <=> Core(pl.lastScreen) = Core(pl.text))

\* C22, witness: the check has passed on a snapshot with blank lines below
\* its text against an expectation that begins with a line break.
C22_Witness ==
  /\ ppc = "done" /\ pl.op = "AssertScreenEqual" /\ pl.res = "nil"
  /\ pl.lastScreen = <<Narrow, NL>> /\ pl.text = <<NL, Narrow>>

\* The name between the delimiters when the string is one tag, and <<>>
\* otherwise.
TagContent(dsl, opts) ==
  IF Len(dsl) >= 2 /\ dsl[1] = ToByte(opts.TagStart)
       /\ dsl[Len(dsl)] = ToByte(opts.TagEnd)
    THEN SubSeq(dsl, 2, Len(dsl) - 1)
    ELSE <<>>

\* v spells the canonical name w in another casing.  The argument of waitfor
\* and the letter of A- are part of the token and are the same in both.
CasingOf(v, w) ==
  LET kept == IF HasPrefix(w, Prefixes.waitfor) THEN 9..Len(w)
              ELSE IF HasPrefix(w, Prefixes.alt) THEN {3}
              ELSE {}
  IN  /\ Len(v) = Len(w)
      /\ ToLower(v) = ToLower(w)
      /\ \A i \in kept : v[i] = w[i]

\* C23: a supported tag name compiles to the same token in every letter
\* casing: whenever the compiled string is one tag whose name spells a
\* canonical name in some casing, the compiler succeeds with exactly the
\* one token the canonical spelling compiles to.
C23_CasingIsIgnored ==
  kl.op = "Parse" =>
    \A w \in TagNames :
      CasingOf(TagContent(kl.dsl, kl.opts), w) =>
        /\ kl.perr = "nil"
        /\ Len(kl.keys) = 1
        /\ kl.keys = ParseWithOptions(Tagged(w, kl.opts), kl.opts).keys

\* <PAGEDOWN>, <WaitFor ok> and <C-A> have been compiled to the tokens of
\* pagedown, waitfor ok and c-a.
C23_Witness ==
  /\ kl.op = "Parse"
  /\ kl.opts = DefaultParseOptions
  /\ \/ /\ kl.dsl = B(<<"<", "P", "A", "G", "E", "D", "O", "W", "N", ">">>)
        /\ kl.keys = <<Keys.PageDown>>
     \/ /\ kl.dsl = B(<<"<", "W", "a", "i", "t", "F", "o", "r", " ", "o", "k", ">">>)
        /\ kl.keys = <<WAITFOR \o B(<<"o", "k">>)>>
     \/ /\ kl.dsl = B(<<"<", "C", "-", "A", ">">>)
        /\ kl.keys = <<<<1>>>>

\* C24: an immediately doubled opening delimiter is one literal opening
\* delimiter inside the surrounding text run: a string whose only opening
\* delimiters are one doubled pair compiles to the single text token that is
\* the string with one of the two removed, closing delimiters included.
C24_DoubledOpenerIsLiteral ==
  kl.op = "Parse" =>
    LET d == ToByte(kl.opts.TagStart) IN
    \A k \in 1..(Len(kl.dsl) - 1) :
      (/\ kl.dsl[k] = d /\ kl.dsl[k + 1] = d
       /\ \A j \in 1..Len(kl.dsl) : kl.dsl[j] = d => j \in {k, k + 1})
      => /\ kl.perr = "nil"
         /\ kl.from = <<"text">>
         /\ kl.keys = <<SubSeq(kl.dsl, 1, k)
                          \o SubSeq(kl.dsl, k + 2, Len(kl.dsl))>>

\* a<<b>> has been compiled to the one token a<b>>.
C24_Witness ==
  /\ kl.op = "Parse"
  /\ kl.opts = DefaultParseOptions
  /\ kl.dsl = B(<<"a", "<", "<", "b", ">", ">">>)
  /\ kl.keys = <<B(<<"a", "<", "b", ">", ">">>)>>

\* C25: C- and an ASCII letter compile to the one byte that is the letter's
\* position in the alphabet (C-a is 1, C-z is 26), in either casing; C- and
\* one character that is no ASCII letter is an error and gives no token.
C25_CtrlIsAlphabetPosition ==
  kl.op = "Parse" =>
    LET n == TagContent(kl.dsl, kl.opts) IN
    (Len(n) = 3 /\ n[1] \in {Code["c"], Code["C"]} /\ n[2] = Code["-"]) =>
      IF n[3] \in Code["a"]..Code["z"]
        THEN kl.perr = "nil" /\ kl.keys = <<<<n[3] - Code["a"] + 1>>>>
      ELSE IF n[3] \in Code["A"]..Code["Z"]
        THEN kl.perr = "nil" /\ kl.keys = <<<<n[3] - Code["A"] + 1>>>>
      ELSE kl.perr # "nil" /\ kl.keys = <<>>

\* <C-Z> has been compiled to the byte 26.
C25_Witness ==
  /\ kl.op = "Parse"
  /\ kl.dsl = B(<<"<", "C", "-", "Z", ">">>)
  /\ kl.keys = <<<<26>>>>

\* C26: a compile error returns no tokens and is positioned at the byte
\* offset of an opening delimiter; when the first opening delimiter of the
\* string (not doubled) starts a tag that is never closed, or whose content
\* is none of the supported forms, the error is positioned at that
\* delimiter's offset.
C26_ErrorAtOpeningOffset ==
  kl.op = "Parse" =>
    LET d     == ToByte(kl.opts.TagStart)
        e     == ToByte(kl.opts.TagEnd)
        opens == {k \in 1..Len(kl.dsl) : kl.dsl[k] = d}
    IN  /\ kl.perr # "nil" => kl.keys = <<>> /\ kl.pos + 1 \in opens
        /\ opens # {} =>
             LET k      == CHOOSE o \in opens : \A o2 \in opens : o <= o2
                 closes == {j \in (k + 1)..Len(kl.dsl) : kl.dsl[j] = e}
                 j      == CHOOSE c \in closes : \A c2 \in closes : c <= c2
             IN  (k = Len(kl.dsl) \/ kl.dsl[k + 1] # d) =>
                   /\ closes = {} =>
                        kl.perr = "unclosed" /\ kl.pos = k - 1
                   /\ (closes # {}
                         /\ ToLower(SubSeq(kl.dsl, k + 1, j - 1)) \in BadNames)
                      => kl.perr \notin {"nil", "unclosed"} /\ kl.pos = k - 1

\* <Tab><a has failed as unclosed at offset 5, after one compiled tag, and
\* returned no token.
C26_Witness ==
  /\ kl.op = "Parse"
  /\ kl.dsl = B(<<"<", "T", "a", "b", ">", "<", "a">>)
  /\ kl.perr = "unclosed"
  /\ kl.pos = 5
  /\ kl.keys = <<>>

\* C27: when the string given to KeyPressString or KeyPressStringWithOptions
\* does not compile, the call returns the parse error without having made
\* any call: no key is written and no wait is started, whatever compiles
\* before the error.
C27_ParseErrorSendsNothing ==
  (kl.op = "KeyPressString"
     /\ ParseWithOptions(kl.dsl, kl.opts).err # "nil")
  => /\ kl.ran = <<>>
     /\ kpc = "done"
     /\ kl.err = "parse DSL"

\* a<Tab><x> has been given to KeyPressString: the text and the tab compile,
\* the third tag does not, and nothing has been sent.
C27_Witness ==
  /\ kl.op = "KeyPressString"
  /\ kl.dsl = B(<<"a", "<", "T", "a", "b", ">", "<", "x", ">">>)
  /\ kpc = "done"
  /\ kl.perr = "unknown key"
  /\ kl.ran = <<>>

\* The call the compiler's k-th token asks for: a wait for the tokens of the
\* WaitStable and WaitFor tags, a write of the bytes for text runs and keys.
AskedFor(k) ==
  IF kl.from[k] = "tag" /\ kl.keys[k] = WAITSTABLE
    THEN [call |-> "WaitStable", arg |-> <<>>]
  ELSE IF kl.from[k] = "tag" /\ HasPrefix(kl.keys[k], WAITFOR)
    THEN [call |-> "WaitFor",
          arg |-> SubSeq(kl.keys[k], Len(WAITFOR) + 1, Len(kl.keys[k]))]
  ELSE [call |-> "KeyPress", arg |-> kl.keys[k]]

\* C28: the interpreter runs the tokens in source order, text and keys as
\* writes and the WaitStable and WaitFor tokens as waits; only the last call
\* made can have failed; the call returns nil after all tokens ran and an
\* error right after the call that failed.
C28_TokensRunInOrder ==
  (kl.op = "KeyPressString" /\ kl.perr = "nil") =>
    /\ Len(kl.ran) <= Len(kl.keys)
    /\ \A k \in 1..Len(kl.ran) :
         /\ kl.ran[k].call = AskedFor(k).call
         /\ kl.ran[k].arg = AskedFor(k).arg
         /\ k < Len(kl.ran) => kl.ran[k].res = "nil"
    /\ kpc = "done" =>
         IF kl.err = "nil"
           THEN Len(kl.ran) = Len(kl.keys)
                  /\ \A k \in 1..Len(kl.ran) : kl.ran[k].res = "nil"
           ELSE kl.ran # <<>> /\ kl.ran[Len(kl.ran)].res # "nil"

\* C29: GetLine returns no error; for a row at or beyond the recorded row
\* count it returns the empty string, whatever state the session is in; and
\* a row inside the screen all of whose cells are empty reads as the empty
\* string.
C29_RowBeyondScreenIsEmpty ==
  (cpc = "done" /\ lastOp = "GetLine") =>
    /\ lastErr = "nil"
    /\ loc.ar >= rows => ret = <<>>
    /\ (loc.ar < rows
          /\ \A c \in 0..(cols - 1) : GetCell(Screen, loc.ar, c) = Space)
       => ret = <<>>

\* GetLine has been called on a running session for the row just below
\* the last one, while the engine holds output of the child.
C29_Witness ==
  /\ cpc = "done" /\ lastOp = "GetLine"
  /\ loc.pre = "Running"
  /\ loc.ar = rows
  /\ \E r \in Idx : \E c \in Idx : grid[r][c] # Space
  /\ ret = <<>> /\ lastErr = "nil"

C31_RowIsBounded ==
  /\ [][(cpc = "row" /\ cpc' = "row")
          => /\ loc'.col >= loc.col + 1
             /\ Len(loc'.line) = Len(loc.line) + 1]_vars
  /\ [](cpc = "row" => (Len(loc.line) <= loc.col /\ Len(loc.line) <= cols))
  /\ []((cpc = "done" /\ lastOp \in {"getLine", "GetLine"})
          => Len(ret) <= cols)
  /\ []((cpc = "done" /\ lastOp = "GetScreenText")
          => \A k \in 1..Len(Split(ret)) : Len(Split(ret)[k]) <= cols)

\* C31, witness: a row of two columns that holds a glyph of width 0 and
\* then a wide glyph has been extracted; the cursor has ended beyond the
\* last column.
C31_Witness ==
  /\ cpc = "done" /\ lastOp = "getLine"
  /\ cols = 2 /\ loc.col = 3
  /\ ret = <<ZeroW, Wide>>

\* An assertion has run under the default retry policy (6 attempts, 20ms,
\* factor 2) and has reported failure.
FailedUnderDefaults ==
  /\ ppc = "done" /\ pl.op = "Assert" /\ pl.res = "fatal"
  /\ getMaxAttempts = defaultMaxAttempts
  /\ getInitialDelay = defaultInitialDelay
  /\ getBackoffFactor = defaultBackoffFactor

\* The time slept in all.
RECURSIVE Total(_)
Total(sleeps) == IF sleeps = <<>> THEN 0 ELSE Head(sleeps) + Total(Tail(sleeps))

IsDigits(sfx) == sfx # <<>> /\ \A i \in 1..Len(sfx) : sfx[i] \in 48..57

\* The digits sfx are a decimal numeral of n <= 99, with or without leading
\* zeros.
Reads(sfx, n) ==
  LET numeral == IF n < 10 THEN <<48 + n>>
                           ELSE <<48 + (n \div 10), 48 + (n % 10)>>
  IN  \E z \in 0..Len(sfx) :
        /\ \A i \in 1..z : sfx[i] = 48
        /\ SubSeq(sfx, z + 1, Len(sfx)) = numeral

\* C33: a tag F<digits> (or f<digits>) compiles exactly when the digits are
\* a numeral of one of 1..24, and then to the one token F(n); F0, F25 and
\* every other number give an error, and so does a suffix that is no
\* number: empty, or with a character other than a digit after an optional
\* leading sign.
C33_FunctionKeyRange ==
  kl.op = "Parse" =>
    LET name == TagContent(kl.dsl, kl.opts)
        sfx  == Tail(name)
        rest == IF sfx # <<>> /\ sfx[1] \in {43, 45} THEN Tail(sfx) ELSE sfx
    IN  (name # <<>> /\ name[1] \in {Code["F"], Code["f"]}) =>
          /\ IsDigits(sfx) =>
               /\ kl.perr = "nil" <=> \E n \in 1..24 : Reads(sfx, n)
               /\ \A n \in 1..24 : Reads(sfx, n) => kl.keys = <<F(n)>>
          /\ ~IsDigits(rest) => kl.perr # "nil"
          /\ kl.perr # "nil" => kl.keys = <<>>

\* C33, witness: <F09> has been compiled to the token of F9, and F9 is not
\* the token of another function key.
C33_Witness ==
  /\ kl.op = "Parse"
  /\ kl.dsl = B(<<"<", "F", "0", "9", ">">>)
  /\ kl.perr = "nil" /\ kl.keys = <<F(9)>>
  /\ F(9) # F(24) /\ F(9) # <<>>

\* The characters of a string of UTF-8 bytes (runes below U+0800).
RECURSIVE Runes(_)
Runes(bytes) ==
  IF bytes = <<>> THEN <<>>
  ELSE IF bytes[1] \in 192..223 /\ Len(bytes) >= 2
    THEN <<(bytes[1] - 192) * 64 + (bytes[2] - 128)>>
           \o Runes(SubSeq(bytes, 3, Len(bytes)))
    ELSE <<bytes[1]>> \o Runes(Tail(bytes))

RECURSIVE Bytes(_)
Bytes(runes) ==
  IF runes = <<>> THEN <<>> ELSE Utf8(Head(runes)) \o Bytes(Tail(runes))

\* The same string with the roles of the custom delimiters and of < and >
\* exchanged, character by character.
Twin(str, opts) ==
  LET Other(r) == CASE r = opts.TagStart -> DefaultParseOptions.TagStart
                    [] r = opts.TagEnd   -> DefaultParseOptions.TagEnd
                    [] r = DefaultParseOptions.TagStart -> opts.TagStart
                    [] r = DefaultParseOptions.TagEnd   -> opts.TagEnd
                    [] OTHER -> r
      rs == Runes(str)
  IN  Bytes([i \in 1..Len(rs) |-> Other(rs[i])])

\* What a token of the twin string corresponds to: literal text and the text
\* of a WaitFor are exchanged back, a key is the same.
TwinToken(key, from, opts) ==
  IF from = "text" THEN Twin(key, opts)
  ELSE IF HasPrefix(key, WAITFOR)
    THEN WAITFOR \o Twin(SubSeq(key, Len(WAITFOR) + 1, Len(key)), opts)
  ELSE key

\* C34: with a custom delimiter pair the compiler applies the same grammar
\* with the pair in the place of < and >, and < and > are ordinary
\* characters: a string compiles as the default grammar compiles the string
\* in which the pair and < > have changed places, with the same tokens (the
\* literal text and the text of a WaitFor as spelled) or the same error;
\* with [ and ], [WaitFor >]a[Tab] compiles to WaitFor(">"), the text a
\* and Tab.
C34_SameGrammar ==
  (kl.op = "Parse" /\ kl.opts # DefaultParseOptions) =>
    /\ LET p == ParseWithOptions(Twin(kl.dsl, kl.opts), DefaultParseOptions) IN
       /\ kl.perr = p.err
       /\ kl.keys = [k \in 1..Len(p.keys) |->
                       TwinToken(p.keys[k], p.from[k], kl.opts)]
    /\ (/\ kl.opts.TagStart = Code["["]
        /\ kl.dsl = B(<<"[", "W", "a", "i", "t", "F", "o", "r", " ", ">", "]",
                        "a", "[", "T", "a", "b", "]">>))
         => kl.keys = <<WAITFOR \o B(<<">">>), Text(B(<<"a">>)), Keys.Tab>>

\* C35: in KeyPressString and KeyPressStringWithOptions a wait is made only
\* for a token that came from a tag, and the token of every literal text run
\* is written to the pty as it is.
C35_OnlyTagsAreDirectives ==
  kl.op = "KeyPressString" =>
    \A k \in 1..Len(kl.ran) :
      /\ kl.ran[k].call \in {"WaitStable", "WaitFor"} => kl.from[k] = "tag"
      /\ kl.from[k] = "text" => /\ kl.ran[k].call = "KeyPress"
                                /\ kl.ran[k].arg = kl.keys[k]

\* C36: once Close has torn down the engine nothing reads or writes it: no
\* reader has a write to it behind it and its flush ahead, GetScreenText is
\* not in its row loop and has not returned rows read off it, GetLine has
\* not read a row off it and Resize has not resized it.
C36_NoAccessAfterTeardown ==
  vtFreed =>
    /\ \A i \in Ids : rpc[i] # "flush"
    /\ cpc # "snap"
    /\ (cpc = "done" /\ lastOp = "GetScreenText") => screen = 0
    /\ (cpc = "done" /\ lastOp = "GetLine") => (screen = 0 \/ loc.ar >= rows)
    /\ (cpc = "done" /\ lastOp = "Resize" /\ lastErr = "nil") => vt = 0

\* C37: the lock is taken only when it is free; the caller holds it only
\* inside GetScreenText's row loop and not between calls, after a return
\* (with or without an error) or in Close's wait; a reader holds it only
\* between its write to the engine and its flush, never in Read; so the
\* lock is free for a snapshot whenever the caller is between calls and no
\* reader is about to flush.  Every holder lets go of the lock and every
\* snapshot under way is served, unless the process dies first.
C37_LockCannotDeadlock ==
  /\ [][(mu' # mu /\ mu' # Free) => mu = Free]_vars
  /\ [](mu = Caller => cpc \in {"snap", "crashed"})
  /\ [](\A i \in Ids : mu = i => (rpc[i] = "flush" \/ cpc = "crashed"))
  /\ []((cpc = "idle" /\ \A i \in Ids : rpc[i] # "flush") => mu = Free)
  /\ (mu # Free) ~> (mu = Free \/ cpc = "crashed")
  /\ (cpc = "snap") ~> (cpc \in {"done", "crashed"})

\* C37, witness: GetScreenText has returned what the reader fed to the
\* engine, the reader is back in Read and the lock is free.
C37_Witness ==
  /\ cpc = "done" /\ lastOp = "GetScreenText" /\ lastErr = "nil"
  /\ ret # <<>> /\ ret # <<NL>>
  /\ rpc[1] = "read" /\ mu = Free

\* C38: in one grid state GetLine(r), for every row r below the row count,
\* is the r-th line of GetScreenText: GetScreenText returns the rows of the
\* grid, each with its trailing blanks removed, joined by line breaks, so it
\* has exactly rows lines and none ends in a blank; GetLine(r) returns the
\* line with the number r + 1 of that text.
C38_LineIsRowOfScreen ==
  /\ (cpc = "done" /\ lastOp = "GetScreenText") =>
       LET ls == Split(ret) IN
       /\ ret = ScreenText(Screen, rows, cols)
       /\ Len(ls) = rows
       /\ \A k \in 1..Len(ls) : ls[k] = <<>> \/ ls[k][Len(ls[k])] # Space
  /\ (cpc = "done" /\ lastOp = "GetLine" /\ loc.ar < rows) =>
       ret = Split(ScreenText(Screen, rows, cols))[loc.ar + 1]

\* C38, witness: GetLine(1) has returned the second row of a screen of two
\* rows without its trailing blank; the first row reads differently.
C38_Witness ==
  /\ cpc = "done" /\ lastOp = "GetLine" /\ loc.ar = 1
  /\ rows = 2 /\ cols = 2
  /\ grid[0] = [c \in Idx |-> IF c = 0 THEN Space ELSE ZeroW]
  /\ grid[1] = [c \in Idx |-> IF c = 0 THEN Narrow ELSE Space]
  /\ ret = <<Narrow>>


\* Flat(cs): the bytes of the chunks cs, one after the other.
RECURSIVE Flat(_)
Flat(cs) == IF cs = <<>> THEN <<>> ELSE ChunkBytes(Head(cs)) \o Flat(Tail(cs))

\* C39: with collection enabled, every result of GetRawBytes is the
\* concatenation, in the order they were fed, of all the chunks the readers
\* had written to the engine when the call ran, and so a prefix of every
\* later result; a result in the caller's hands stays as it was returned;
\* with collection disabled the result is nil and nothing is stored.
C39_RawBytesAreAllThatWasFed ==
  /\ \A k \in DOMAIN rawLog.got :
       LET g == rawLog.got[k] IN
         /\ g.nil => g.bytes = <<>>
         /\ ~g.nil => g.bytes = Flat(SubSeq(rawLog.fed, 1, g.at))
         /\ \A j \in 1..(k - 1) :
              LET h == rawLog.got[j] IN
                /\ Len(h.bytes) <= Len(g.bytes)
                /\ h.bytes = SubSeq(g.bytes, 1, Len(h.bytes))
  /\ ~collectRawBytes => rawBytes = <<>>


============================================================================
